---- MODULE Spec2Model ----
(***************************************************************************)
(* The SlimProto client controller of LMS-to-uPnP                          *)
(* (application/squeezetiny/slimproto.c) as a state machine.               *)
(*                                                                         *)
(* The controller thread is modelled one handler per action: the opcode    *)
(* handlers process_strm / process_cont / process_codc / process_serv, the *)
(* status ticker of slimproto_run, the framed receive loop and the         *)
(* connection manager slimproto().  The stream, decoder, output and render *)
(* threads are collaborators whose code is not in slimproto.c; they are    *)
(* modelled from the specification (section 3, 4.6 and 6) as the smallest  *)
(* set of steps that write the fields the controller reads.                *)
(*                                                                         *)
(* The status ticker is one action.  Its three sections run under the      *)
(* streambuf, outputbuf and decode mutex in turn; the stream section reads *)
(* only stream fields, the output section only output/render fields and    *)
(* the decode section only decode.state plus values the earlier sections   *)
(* sampled, so a collaborator step between two sections commutes with the  *)
(* sections it does not touch and every interleaving equals one with the   *)
(* ticker run atomically.                                                  *)
(***************************************************************************)
EXTENDS Integers, Sequences, FiniteSets, TLC

VARIABLES
    \* ---- controller (struct thread_ctx_s) ----
    autostart,      \* ctx->autostart, 0..3
    last_command,   \* ctx->last_command, the last strm sub-command ("" = 0)
    canSTMdu,       \* ctx->canSTMdu
    sentSTMu,       \* ctx->sentSTMu
    sentSTMo,       \* ctx->sentSTMo
    sentSTMl,       \* ctx->sentSTMl
    sentSTMd,       \* ctx->sentSTMd
    \* ---- collaborators' state the controller reads and writes ----
    stream,         \* ctx->stream: state, bytes, disconnect, sent_headers, meta_send
    decode_state,   \* ctx->decode.state
    output,         \* ctx->output: state, track_started, completed, flow, remote, start_at
    render,         \* ctx->render: state, duration, ms_played
    othread,        \* the output thread: active, first (first sample not yet consumed)
    config,         \* ctx->config: flow (mode asks for flow), auto (server == "?")
    \* ---- connection manager and receive loop ----
    pc,             \* position of the controller thread in slimproto()/slimproto_run()
    running,        \* ctx->running
    new_server,     \* ctx->new_server (0 = none)
    new_server_cap, \* ctx->new_server_cap (<<>> = NULL, else the string)
    var_cap,        \* ctx->var_cap
    slimproto_ip,   \* ctx->slimproto_ip
    reconnect,      \* local of slimproto()
    failed_connect, \* local of slimproto()
    sock,           \* ctx->sock: "closed" | "open"
    expect,         \* local of slimproto_run()
    got,            \* local of slimproto_run()
    timeouts,       \* local of slimproto_run()
    hdr,            \* ctx->slim_run.buffer: the bytes of the prefix or frame read so far
    \* ---- the control connection and send_packet ----
    wire,           \* bytes the server has sent that the controller has not read
    due,            \* frames the server has sent that are not dispatched yet
    snd,            \* send_packet(): position, len, bytes sent, try; observed: the
                    \* retries, the log level and the last result of send()
    \* ---- observation ----
    step,           \* the handler the controller ran last ("env": a collaborator step)
    sent,           \* what that handler sent and called, in order
    inp,            \* the strm 's' frame it was given (<<>> for any other step)
    hist,           \* history since the last strm 's' / the last latch reset
    nframes         \* frames dispatched so far (bounds the model)

ctl_vars  == <<autostart, last_command, canSTMdu, sentSTMu, sentSTMo, sentSTMl, sentSTMd>>
play_vars == <<stream, decode_state, output, render, othread>>
conn_vars == <<pc, running, new_server, new_server_cap, var_cap, slimproto_ip,
               reconnect, failed_connect, sock, expect, got, timeouts, hdr>>
net_vars  == <<wire, due>>
vars      == <<ctl_vars, play_vars, config, conn_vars, net_vars, snd, step, sent, inp,
               hist, nframes>>

(***************************************************************************)
(* Program constants                                                       *)
(***************************************************************************)
MAXBUF == 4096
PORT == 3483
SYNC_CAP_LEN == 13
\* ",SyncgroupID=" as character codes
SYNC_CAP == <<44, 83, 121, 110, 99, 103, 114, 111, 117, 112, 73, 68, 61>>

\* squeezelite.h / slimproto.h (not part of slimproto.c)
MAX_HEADER == 4096
StrmPacketSize == 28
ServPacketSize == 8
\* the value of STREAM_DELAY is scaled to the positions of the model
STREAM_DELAY == 2

(***************************************************************************)
(* Bounds of the model                                                     *)
(***************************************************************************)
MaxMs == 3          \* positions the renderer reports
MaxDuration == 3    \* the duration of a track of known duration
MaxFailed == 6      \* failed connection attempts in a row
MaxFrames == 2      \* frames the server sends in the playback specifications
MaxStarts == 1      \* strm 's' frames in the remote-source specification
MaxHandover == 4    \* frames the server sends in the handover specification
MaxWaits == 2       \* waits in a row where the server is not silent for long
MaxSendLen == 3     \* bytes of a packet given to send_packet
MaxRetried == 12    \* retries of one send_packet call that the model follows

\* stream_state <= DISCONNECT: the enum starts STOPPED, DISCONNECT
LeDisconnect(s) == s \in {"STOPPED", "DISCONNECT"}

\* the stream socket is open
StreamOpen(s) == s \in {"STREAMING_WAIT", "STREAMING_BUFFERING", "STREAMING_FILE",
                        "STREAMING_HTTP"}

\* One thing the controller did: a frame sent or a collaborator called.
Ev(name) == [ev |-> name, arg |-> <<>>]
Call(name, args) == [ev |-> name, arg |-> args]
Sel(b, e) == IF b THEN <<e>> ELSE <<>>
Names(s) == {s[i].ev : i \in 1..Len(s)}
Count(s, name) == Cardinality({i \in 1..Len(s) : s[i].ev = name})
\* every name1 in s comes before every name2
Before(s, name1, name2) ==
    \A i, j \in 1..Len(s) : (s[i].ev = name1 /\ s[j].ev = name2) => i < j


(***************************************************************************)
(* Collaborators (stream.c, decode.c, output.c and the renderer are not    *)
(* part of slimproto.c; modelled from the specification, 3, 4.6 and 6)     *)
(***************************************************************************)
DISCONNECT_OK == "DISCONNECT_OK"
DisconnectCodes == {DISCONNECT_OK, "REMOTE_DISCONNECT"}

\* stream_sock(): opens the HTTP stream; with cont_wait it waits for cont.
\* (A connection that fails is a StreamEnd step right after.)
stream_sock(cont_wait) ==
    [state        |-> IF cont_wait THEN "STREAMING_WAIT" ELSE "STREAMING_BUFFERING",
     bytes        |-> 0,
     disconnect   |-> DISCONNECT_OK,
     sent_headers |-> FALSE,
     meta_send    |-> FALSE]

\* stream_disconnect(): idempotent; TRUE if it actually closed something.
stream_disconnect_ret(st) == StreamOpen(st.state)
stream_disconnect(st) == [st EXCEPT !.state = "STOPPED"]

\* output_flush(): stops the output thread and the output
output_flush(o) == [o EXCEPT !.state = "OUTPUT_STOPPED", !.track_started = FALSE]

Env ==
    /\ step' = "env"
    /\ sent' = <<>>
    /\ inp' = <<>>
    /\ UNCHANGED <<ctl_vars, config, conn_vars, net_vars, snd, hist, nframes>>

\* output_start(): starts the output thread on a new track
output_start(o) == [o EXCEPT !.track_started = FALSE]

\* the stream thread received data; the threshold may be reached
StreamRecv ==
    /\ stream.state \in {"STREAMING_BUFFERING", "STREAMING_HTTP"}
    /\ \E s \in {stream.state, "STREAMING_HTTP"} :
          stream' = [stream EXCEPT !.bytes = 1, !.state = s]
    /\ UNCHANGED <<decode_state, output, render, othread>>
    /\ Env

\* the stream ended or failed
StreamEnd ==
    /\ StreamOpen(stream.state)
    /\ \E c \in DisconnectCodes :
          stream' = [stream EXCEPT !.state = "DISCONNECT", !.disconnect = c]
    /\ UNCHANGED <<decode_state, output, render, othread>>
    /\ Env

\* the stream thread has ICY metadata to push
StreamMeta ==
    /\ stream.state = "STREAMING_HTTP"
    /\ ~stream.meta_send
    /\ stream' = [stream EXCEPT !.meta_send = TRUE]
    /\ UNCHANGED <<decode_state, output, render, othread>>
    /\ Env

\* the decoder thread finished or failed
DecodeEnd ==
    /\ decode_state = "DECODE_RUNNING"
    /\ decode_state' \in {"DECODE_COMPLETE", "DECODE_ERROR"}
    /\ UNCHANGED <<stream, output, render, othread>>
    /\ Env

\* the output thread consumed the first sample of a track; there is one only
\* once the decoder has been started
OutputTrackStarted ==
    /\ othread.active /\ othread.first
    /\ decode_state # "DECODE_READY"
    /\ output' = [output EXCEPT !.track_started = TRUE]
    /\ othread' = [othread EXCEPT !.first = FALSE]
    /\ UNCHANGED <<stream, decode_state, render>>
    /\ Env

\* the output thread has sent everything and ended
OutputCompleted ==
    /\ othread.active
    /\ output' = [output EXCEPT !.completed = TRUE]
    /\ othread' = [active |-> FALSE, first |-> FALSE]
    /\ UNCHANGED <<stream, decode_state, render>>
    /\ Env

\* the player started rendering a track of some duration
RenderPlay(d) ==
    /\ render.state = "RD_STOPPED"
    /\ output.state = "OUTPUT_RUNNING"
    /\ render' = [state |-> "RD_PLAYING", duration |-> d, ms_played |-> 0]
    /\ UNCHANGED <<stream, decode_state, output, othread>>
    /\ Env

\* playback progressed
RenderProgress ==
    /\ render.state = "RD_PLAYING"
    /\ render.ms_played < MaxMs
    /\ render.duration = 0 \/ render.ms_played < render.duration
    /\ render' = [render EXCEPT !.ms_played = @ + 1]
    /\ UNCHANGED <<stream, decode_state, output, othread>>
    /\ Env

\* the player stopped rendering
RenderStop ==
    /\ render.state = "RD_PLAYING"
    /\ render' = [render EXCEPT !.state = "RD_STOPPED"]
    /\ UNCHANGED <<stream, decode_state, output, othread>>
    /\ Env

(***************************************************************************)
(* process_start: the format negotiator.  e is what the collaborators      *)
(* answer: remote (metadata), mime (a mime-type was found), copen          *)
(* (codec_open), ostart (output_start), cb (the SQ_SET_TRACK callback).    *)
(* The result: ret, the new output, decoder state and output thread, and   *)
(* the calls made.                                                         *)
(***************************************************************************)
ProcessEnvs ==
    {[remote |-> r, mime |-> TRUE, copen |-> TRUE, ostart |-> TRUE, cb |-> TRUE] :
        r \in BOOLEAN}
    \cup {[remote |-> FALSE, mime |-> FALSE, copen |-> TRUE, ostart |-> TRUE, cb |-> TRUE],
          [remote |-> FALSE, mime |-> TRUE, copen |-> FALSE, ostart |-> TRUE, cb |-> TRUE],
          [remote |-> FALSE, mime |-> TRUE, copen |-> TRUE, ostart |-> FALSE, cb |-> TRUE],
          [remote |-> FALSE, mime |-> TRUE, copen |-> TRUE, ostart |-> TRUE, cb |-> FALSE]}

AllOk == [remote |-> FALSE, mime |-> TRUE, copen |-> TRUE, ostart |-> TRUE, cb |-> TRUE]

\* codec_open(): the decoder is READY when the codec exists, STOPPED otherwise
codec_open(ok) == IF ok THEN "DECODE_READY" ELSE "DECODE_STOPPED"

\* variant: a start in flow mode sets the output up again
FlowActiveNever(flow) == FALSE

\* line 1013: flow mode is already active
FlowActive(flow) == flow

\* lines 976-981: the track index is advanced under the outputbuf mutex
StartLocks == <<Ev("LOCK_O"), Ev("UNLOCK_O")>>

process_start(e) ==
    LET out1 == [output EXCEPT !.index = @ + 1, !.completed = FALSE,
                               !.remote = e.remote]
    IN  IF FlowActive(out1.flow)
        THEN \* in flow mode we now have everything, just initialize codec
             [ret |-> e.copen, output |-> out1, decode_state |-> codec_open(e.copen),
              othread |-> IF e.copen /\ othread.active
                          THEN [othread EXCEPT !.first = TRUE] ELSE othread,
              calls |-> StartLocks \o <<Ev("codec_open")>>]
        ELSE LET out2 == [out1 EXCEPT !.flow = config.flow]
             IN  IF ~e.mime
                 THEN [ret |-> FALSE, output |-> out2, decode_state |-> decode_state,
                       othread |-> othread, calls |-> StartLocks]
                 ELSE IF ~e.copen
                 THEN [ret |-> FALSE, output |-> out2,
                       decode_state |-> codec_open(FALSE),
                       othread |-> othread,
                       calls |-> StartLocks \o <<Ev("codec_open")>>]
                 ELSE IF ~e.ostart
                 THEN [ret |-> FALSE, output |-> out2,
                       decode_state |-> codec_open(TRUE),
                       othread |-> othread,
                       calls |-> StartLocks
                                 \o <<Ev("codec_open"), Ev("output_start")>>]
                 ELSE [ret |-> e.cb, output |-> output_start(out2),
                       decode_state |-> codec_open(TRUE),
                       othread |-> [active |-> TRUE, first |-> TRUE],
                       calls |-> StartLocks
                                 \o <<Ev("codec_open"), Ev("output_start"),
                                      Ev("SQ_SET_TRACK")>>]


(***************************************************************************)
(* Opcode handlers.  A handler says what it does to the controller, the    *)
(* collaborators and the observation variables; the receive loop that      *)
(* dispatches it says what happens to its own variables.                   *)
(***************************************************************************)
NoServ == UNCHANGED <<new_server, new_server_cap>>

\* strm 't': time check
StrmT ==
    /\ sent' = <<Ev("STMt")>>
    /\ last_command' = "t"
    /\ step' = "strm_t"
    /\ UNCHANGED <<autostart, canSTMdu, sentSTMu, sentSTMo, sentSTMl, sentSTMd,
                   play_vars, hist>>
    /\ NoServ

\* strm 'f': flush
StrmF ==
    /\ decode_state' = "DECODE_STOPPED"
    /\ output' = output_flush(output)
    /\ othread' = [active |-> FALSE, first |-> FALSE]
    /\ stream' = stream_disconnect(stream)
    /\ sent' = <<Ev("decode_flush"), Ev("output_flush"), Ev("stream_disconnect"),
                 Ev("zero_ms_played"), Ev("STMf"), Ev("buf_flush")>>
    /\ last_command' = "f"
    /\ step' = "strm_f"
    /\ UNCHANGED <<autostart, canSTMdu, sentSTMu, sentSTMo, sentSTMl, sentSTMd,
                   render, hist>>
    /\ NoServ

\* variant: the stop callback is made on every 'q'
StopCallbackAlways(last) == <<Ev("SQ_STOP")>>

\* line 254: the stop callback is not repeated for a 'q' that follows a 'q'
StopCallback(last) == Sel(last # "q", Ev("SQ_STOP"))

\* variant: a stop is never answered
StrmQReplyNever(open) == <<>>

\* lines 251-252: STMf is sent when stream_disconnect() returns true
StrmQReply(open) == Sel(open, Ev("STMf"))

\* strm 'q': stop
StrmQ ==
    /\ decode_state' = "DECODE_STOPPED"
    /\ output' = output_flush(output)
    /\ othread' = [active |-> FALSE, first |-> FALSE]
    /\ stream' = stream_disconnect(stream)
    /\ sent' = <<Ev("decode_flush"), Ev("output_flush"), Ev("zero_ms_played"),
                 Ev("stream_disconnect")>>
               \o StrmQReply(stream_disconnect_ret(stream))
               \o <<Ev("buf_flush")>>
               \o StopCallback(last_command)
    /\ last_command' = "q"
    /\ step' = "strm_q"
    /\ UNCHANGED <<autostart, canSTMdu, sentSTMu, sentSTMo, sentSTMl, sentSTMd,
                   render, hist>>
    /\ NoServ

\* variant: a pause is honoured whatever its interval
PauseHonouredAlways(interval) == TRUE

\* line 260: if (!interval)
PauseHonoured(interval) == interval = 0

\* strm 'p': pause, honoured only with a zero interval
StrmP(interval) ==
    /\ output' = IF PauseHonoured(interval)
                 THEN [output EXCEPT !.state = "OUTPUT_WAITING"]
                 ELSE output
    /\ sent' = IF PauseHonoured(interval)
               THEN <<Ev("LOCK_O"), Ev("UNLOCK_O"), Ev("SQ_PAUSE"), Ev("STMp")>>
               ELSE <<>>
    /\ last_command' = "p"
    /\ step' = "strm_p"
    /\ UNCHANGED <<autostart, canSTMdu, sentSTMu, sentSTMo, sentSTMl, sentSTMd,
                   stream, decode_state, render, othread, hist>>
    /\ NoServ

\* strm 'a' (skip ahead, ignored) and any unhandled sub-command
StrmOther(cmd) ==
    /\ sent' = <<>>
    /\ last_command' = cmd
    /\ step' = "strm_other"
    /\ UNCHANGED <<autostart, canSTMdu, sentSTMu, sentSTMo, sentSTMl, sentSTMd,
                   play_vars, hist>>
    /\ NoServ

\* strm 'u': unpause at jiffies
StrmU(jiffies) ==
    /\ output' = [output EXCEPT !.state = "OUTPUT_RUNNING", !.start_at = jiffies]
    /\ sent' = <<Ev("SQ_UNPAUSE"), Ev("LOCK_O"), Ev("UNLOCK_O"), Ev("STMr")>>
    /\ last_command' = "u"
    /\ step' = "strm_u"
    /\ UNCHANGED <<autostart, canSTMdu, sentSTMu, sentSTMo, sentSTMl, sentSTMd,
                   stream, decode_state, render, othread, hist>>
    /\ NoServ

\* variant: no header is refused
HeaderNeverTooLong(len) == FALSE

\* header_len = len - sizeof(struct strm_packet) is unsigned: a frame shorter
\* than the struct wraps to a huge header_len
HeaderTooLong(len) ==
    \/ len < StrmPacketSize
    \/ len - StrmPacketSize > MAX_HEADER - 1

\* variants: a failed negotiation returns before the stream is opened; STMc is
\* sent before the stream is opened
StrmSSendsNoConnect(calls, sock_call, sendSTMn) ==
    <<Ev("STMf")>> \o calls
    \o (IF sendSTMn THEN <<Ev("STMn")>> ELSE <<sock_call, Ev("STMc")>>)
StrmSSendsConnectFirst(calls, sock_call, sendSTMn) ==
    <<Ev("STMf")>> \o calls \o <<Ev("STMc"), sock_call>> \o Sel(sendSTMn, Ev("STMn"))

\* what an accepted strm 's' sends and calls, in order (lines 302, 317, 326, 328,
\* 332-335): calls are those of process_start, sock_call the stream_sock call
StrmSSends(calls, sock_call, sendSTMn) ==
    <<Ev("STMf")>> \o calls \o <<sock_call, Ev("STMc")>> \o Sel(sendSTMn, Ev("STMn"))

\* strm 's': start.  p is the packet: autostart, format, server_ip,
\* server_port, threshold; len the frame length; e the collaborators' answers
\* to process_start.
StrmS(p, len, e) ==
    LET ip   == IF p.server_ip = 0 THEN slimproto_ip ELSE p.server_ip
        neg  == p.format # "?"
        ps   == process_start(e)
        sendSTMn == neg /\ ~ps.ret
        \* break before stream_sock: header too long, or '?' without autostart >= 2
        rejected == HeaderTooLong(len) \/ (~neg /\ p.autostart < 2)
        sock_call == Call("stream_sock",
                          <<ip, p.server_port, "header", len - StrmPacketSize,
                            p.threshold * 1024, p.autostart >= 2>>)
    IN  /\ autostart' = p.autostart
        /\ last_command' = "s"
        /\ step' = "strm_s"
        /\ NoServ
        /\ UNCHANGED render
        /\ IF rejected
           THEN /\ sent' = <<Ev("STMf")>>
                /\ hist' = [hist EXCEPT !.STMs = FALSE, !.STMd = FALSE, !.can = FALSE,
                                         !.STMl = FALSE, !.STMu = FALSE,
                                         !.nodata = FALSE]
                /\ UNCHANGED <<canSTMdu, sentSTMu, sentSTMo, sentSTMl, sentSTMd,
                               stream, decode_state, output, othread>>
           ELSE /\ sent' = StrmSSends(IF neg THEN ps.calls ELSE <<>>, sock_call, sendSTMn)
                /\ output' = IF neg THEN ps.output ELSE output
                /\ decode_state' = IF neg THEN ps.decode_state ELSE decode_state
                /\ othread' = IF neg THEN ps.othread ELSE othread
                /\ stream' = stream_sock(p.autostart >= 2)
                /\ canSTMdu' = FALSE
                /\ sentSTMu' = FALSE
                /\ sentSTMo' = FALSE
                /\ sentSTMl' = FALSE
                /\ sentSTMd' = FALSE
                /\ hist' = [hist EXCEPT !.STMs = FALSE, !.STMd = FALSE, !.can = FALSE,
                                         !.rSTMs = FALSE, !.rNodata = FALSE,
                                         !.STMl = FALSE, !.STMu = FALSE,
                                         !.nodata = FALSE]

\* variant: every pending autostart is promoted
ContPromotesAny(a) == a > 0

\* line 354: cont acts on an autostart the server has held back
ContPromotes(a) == a > 1

\* cont
ProcessCont ==
    /\ IF ContPromotes(autostart)
       THEN /\ autostart' = autostart - 2
            /\ stream' = IF stream.state = "STREAMING_WAIT"
                         THEN [stream EXCEPT !.state = "STREAMING_BUFFERING"]
                         ELSE stream
            /\ sent' = <<Ev("LOCK_S"), Ev("UNLOCK_S"), Ev("wake_controller")>>
       ELSE /\ sent' = <<>>
            /\ UNCHANGED <<autostart, stream>>
    /\ step' = "cont"
    /\ UNCHANGED <<last_command, canSTMdu, sentSTMu, sentSTMo, sentSTMl, sentSTMd,
                   decode_state, output, render, othread, hist>>
    /\ NoServ

\* codc
ProcessCodc(e) ==
    LET ps == process_start(e)
    IN  /\ output' = ps.output
        /\ decode_state' = ps.decode_state
        /\ othread' = ps.othread
        /\ sent' = ps.calls \o Sel(~ps.ret, Ev("STMn"))
        /\ step' = "codc"
        /\ UNCHANGED <<ctl_vars, stream, render, hist>>
        /\ NoServ

\* aude: the player is switched on or off
ProcessAude(enable) ==
    /\ sent' = <<Ev("LOCK_O"), Ev("UNLOCK_O"), Call("SQ_ONOFF", <<enable>>)>>
    /\ step' = "aude"
    /\ UNCHANGED <<ctl_vars, play_vars, config, hist>>
    /\ NoServ

\* audg: the volume is handed to the player when adjust is set
ProcessAudg(adjust) ==
    /\ sent' = Sel(adjust, Ev("SQ_VOLUME"))
    /\ step' = "audg"
    /\ UNCHANGED <<ctl_vars, play_vars, config, hist>>
    /\ NoServ

\* setd with id 0: a frame of 5 bytes asks for the player name, a longer one
\* sets it (data is shorter than the name buffer)
ProcessSetd(id, len, data) ==
    /\ IF id = 0 /\ len = 5
       THEN /\ sent' = Sel(config.name # <<>>, Call("SETD", <<config.name>>))
            /\ UNCHANGED config
       ELSE IF id = 0 /\ len > 5
       THEN /\ config' = [config EXCEPT !.name = data]
            /\ sent' = <<Call("SETD", <<data>>), Call("SQ_SETNAME", <<data>>)>>
       ELSE /\ sent' = <<>>
            /\ UNCHANGED config
    /\ step' = "setd"
    /\ UNCHANGED <<ctl_vars, play_vars, hist>>
    /\ NoServ


(***************************************************************************)
(* The status ticker of slimproto_run (lines 593-757).  tt: more than 1 s  *)
(* has passed since the last STMt.                                         *)
(***************************************************************************)
\* status.duration - status.ms_played < STREAM_DELAY on u32_t: a negative
\* difference wraps to a value far above STREAM_DELAY
U32DiffLess(a, b, c) == a >= b /\ a - b < c

\* variant without the canSTMdu gate
STMuCondUngated(ostate, sentu, ready, sstate, rstate, can) ==
    /\ ostate = "OUTPUT_RUNNING" /\ ~sentu /\ ready
    /\ LeDisconnect(sstate) /\ rstate = "RD_STOPPED"

\* variant without the wait for the end of a remote track
STMdCondNoDelay(dstate, can, ready, flow, remote, duration, ms_played) ==
    dstate = "DECODE_COMPLETE" /\ can /\ ready

\* STMu (lines 665-667): output running, not sent yet, output ready, stream over,
\* render stopped, canSTMdu
STMuCond(ostate, sentu, ready, sstate, rstate, can) ==
    /\ ostate = "OUTPUT_RUNNING" /\ ~sentu /\ ready
    /\ LeDisconnect(sstate) /\ rstate = "RD_STOPPED" /\ can

\* STMo (lines 676-678): output running, not sent yet, stream still streaming,
\* render stopped, canSTMdu
STMoCond(ostate, sento, sstate, rstate, can) ==
    /\ ostate = "OUTPUT_RUNNING" /\ ~sento
    /\ sstate = "STREAMING_HTTP" /\ rstate = "RD_STOPPED" /\ can

\* the gate of STMd (lines 727-729): decoder complete, canSTMdu, output ready,
\* and flow mode, a local source, or a remote track close to its end
STMdCond(dstate, can, ready, flow, remote, duration, ms_played) ==
    /\ dstate = "DECODE_COMPLETE" /\ can /\ ready
    /\ \/ flow
       \/ ~remote
       \/ (duration # 0 /\ U32DiffLess(duration, ms_played, STREAM_DELAY))

\* the sampled stream state is one in which the stream delivers (lines 693-694)
Delivering(sstate, code) ==
    \/ sstate \in {"STREAMING_HTTP", "STREAMING_FILE"}
    \/ (sstate = "DISCONNECT" /\ code = DISCONNECT_OK)

\* variant without the sentSTMl latch
LoadCondUnlatched(sstate, code, sentl, dstate) ==
    Delivering(sstate, code) /\ dstate = "DECODE_READY"

\* the decoder is started (lines 693-695): the stream delivers, STMl was not
\* sent, the decoder is ready
LoadCond(sstate, code, sentl, dstate) ==
    Delivering(sstate, code) /\ ~sentl /\ dstate = "DECODE_READY"

\* variant: every start of the decoder releases the output
OutputReleasedAlways(load, a) == load

\* lines 699-705: with autostart 1 the decoder start sets the output RUNNING
OutputReleased(load, a) == load /\ a = 1

\* the samples and flags one ticker invocation computes from the current state
TickCalc(tt) ==
    LET \* ---- under the streambuf mutex ----
        stream_state == stream.state
        stream_bytes == stream.bytes
        sendDSCO == stream.state = "DISCONNECT"
        st1 == IF sendDSCO THEN "STOPPED" ELSE stream.state
        sendRESP == ~stream.sent_headers /\
                    st1 \in {"STREAMING_HTTP", "STREAMING_WAIT", "STREAMING_BUFFERING"}
        sendMETA == stream.meta_send
        \* ---- under the outputbuf mutex ----
        output_ready == output.completed \/ output.flow
        duration == render.duration
        ms_played == render.ms_played
        sendSTMs == output.track_started
        can1 == canSTMdu \/ output.track_started
        nodata == stream_bytes = 0 /\ output.completed /\ output.state = "OUTPUT_RUNNING"
        rstate == IF nodata THEN "RD_STOPPED" ELSE render.state
        can2 == can1 \/ nodata
        sendSTMu == STMuCond(output.state, sentSTMu, output_ready, stream_state,
                             rstate, can2)
        flow1 == IF sendSTMu THEN FALSE ELSE output.flow
        ostate1 == IF sendSTMu THEN "OUTPUT_STOPPED" ELSE output.state
        sendSTMo == STMoCond(ostate1, sentSTMo, stream_state, rstate, can2)
        ostate2 == IF sendSTMo THEN "OUTPUT_STOPPED" ELSE ostate1
        \* ---- under the decode mutex ----
        sendSTMt == decode_state = "DECODE_RUNNING" /\ tt
        load == LoadCond(stream_state, stream.disconnect, sentSTMl, decode_state)
        dstate1 == IF load /\ autostart \in {0, 1} THEN "DECODE_RUNNING" ELSE decode_state
        sendSTMl == load /\ autostart = 0
        ostate3 == IF OutputReleased(load, autostart) THEN "OUTPUT_RUNNING"
                   ELSE ostate2
        next == \/ STMdCond(dstate1, can2, output_ready, flow1, output.remote,
                            duration, ms_played)
                \/ dstate1 = "DECODE_ERROR"
        sendSTMd == next /\ dstate1 = "DECODE_COMPLETE"
        sendSTMn == nodata \/ (next /\ dstate1 = "DECODE_ERROR")
        dstate2 == IF next THEN "DECODE_STOPPED" ELSE dstate1
        disc == next /\ stream_state \in {"STREAMING_HTTP", "STREAMING_FILE"}
    IN  [stream_state |-> stream_state, output_ready |-> output_ready,
         duration |-> duration, ms_played |-> ms_played,
         nodata |-> nodata, load |-> load,
         release |-> OutputReleased(load, autostart),
         ounlock |-> ostate2,
         DSCO |-> sendDSCO, STMs |-> sendSTMs, STMt |-> sendSTMt, STMl |-> sendSTMl,
         STMd |-> sendSTMd, STMu |-> sendSTMu, STMo |-> sendSTMo, STMn |-> sendSTMn,
         RESP |-> sendRESP, META |-> sendMETA, disc |-> disc,
         st |-> IF disc THEN "STOPPED" ELSE st1,
         canSTMdu |-> can2, rstate |-> rstate, flow |-> flow1,
         ostate |-> ostate3, dstate |-> dstate2]

\* variant: the stream headers and metadata are sent before the status frames
TickSendsHeadersFirst(c) ==
    Sel(c.RESP, Ev("RESP")) \o Sel(c.META, Ev("META"))
    \o Sel(c.DSCO, Ev("DSCO")) \o Sel(c.STMs, Ev("STMs")) \o Sel(c.STMt, Ev("STMt"))
    \o Sel(c.STMl, Ev("STMl")) \o Sel(c.STMd, Ev("STMd")) \o Sel(c.STMu, Ev("STMu"))
    \o Sel(c.STMo, Ev("STMo")) \o Sel(c.STMn, Ev("STMn"))

\* variant: the output section begins before the streambuf mutex is released
TickLocksOverlapped(c) ==
    <<Ev("LOCK_S"), Ev("LOCK_O"), Ev("UNLOCK_S"), Ev("UNLOCK_O"), Ev("LOCK_D")>>
    \o Sel(c.load, Ev("SQ_PLAY")) \o <<Ev("UNLOCK_D")>>

\* variant: the frames of a ticker invocation are sent under the decode mutex
TickLocksHeld(c) ==
    <<Ev("LOCK_S"), Ev("UNLOCK_S"), Ev("LOCK_O"), Call("UNLOCK_O", <<c.ounlock>>),
      Ev("LOCK_D")>>
    \o (IF c.release THEN <<Ev("LOCK_O"), Ev("UNLOCK_O")>> ELSE <<>>)
    \o Sel(c.load, Ev("SQ_PLAY"))

\* the mutex operations of a ticker invocation and the callback it makes under
\* the decode mutex (lines 610, 638, 640, 684, 686, 702-707, 742): with
\* autostart 1 the output is released under LOCK_O inside the decode section.
\* The UNLOCK_O of line 684 is noted with the output state it makes visible.
TickLocks(c) ==
    <<Ev("LOCK_S"), Ev("UNLOCK_S"), Ev("LOCK_O"), Call("UNLOCK_O", <<c.ounlock>>),
      Ev("LOCK_D")>>
    \o (IF c.release THEN <<Ev("LOCK_O"), Ev("UNLOCK_O")>> ELSE <<>>)
    \o Sel(c.load, Ev("SQ_PLAY")) \o <<Ev("UNLOCK_D")>>

\* the frames a ticker invocation sends, in the order of lines 747-756
TickSends(c) ==
    Sel(c.DSCO, Ev("DSCO")) \o Sel(c.STMs, Ev("STMs")) \o Sel(c.STMt, Ev("STMt"))
    \o Sel(c.STMl, Ev("STMl")) \o Sel(c.STMd, Ev("STMd")) \o Sel(c.STMu, Ev("STMu"))
    \o Sel(c.STMo, Ev("STMo")) \o Sel(c.STMn, Ev("STMn")) \o Sel(c.RESP, Ev("RESP"))
    \o Sel(c.META, Ev("META"))

StatusTick(tt) ==
    LET c == TickCalc(tt)
    IN  /\ stream' = [stream EXCEPT !.state = c.st,
                                    !.sent_headers = @ \/ c.RESP,
                                    !.meta_send = FALSE]
        /\ output' = [output EXCEPT !.track_started = FALSE, !.flow = c.flow,
                                    !.state = c.ostate]
        /\ render' = [render EXCEPT !.state = c.rstate]
        /\ decode_state' = c.dstate
        /\ canSTMdu' = c.canSTMdu
        /\ sentSTMu' = (sentSTMu \/ c.STMu)
        /\ sentSTMo' = (sentSTMo \/ c.STMo)
        /\ sentSTMl' = (sentSTMl \/ c.STMl)
        /\ sent' = TickLocks(c) \o Sel(c.disc, Ev("stream_disconnect"))
                   \o TickSends(c)
        /\ hist' = [hist EXCEPT !.STMs = @ \/ c.STMs, !.STMd = @ \/ c.STMd,
                                 !.can = @ \/ output.track_started \/ c.nodata,
                                 !.rSTMs = @ \/ c.STMs,
                                 !.rNodata = @ \/ c.nodata,
                                 !.STMl = @ \/ c.STMl, !.STMu = @ \/ c.STMu,
                                 !.nodata = @ \/ c.nodata]
        /\ step' = "tick"
        /\ UNCHANGED <<autostart, last_command, sentSTMd, othread>>
        /\ NoServ


(***************************************************************************)
(* The playback specification: the controller is connected and in its      *)
(* receive loop; the server sends whole frames, the ticker runs, the       *)
(* collaborator threads run.                                               *)
(***************************************************************************)
loop_vars == <<pc, running, var_cap, slimproto_ip, reconnect, failed_connect, sock,
               expect, got, timeouts, hdr>>

ServerIp == 5
\* "den", the configured player name
PlayerName == <<100, 101, 110>>

\* the context is zeroed when the player is created
InitPlay ==
    /\ autostart = 0
    /\ last_command = ""
    /\ canSTMdu = FALSE /\ sentSTMu = FALSE /\ sentSTMo = FALSE
    /\ sentSTMl = FALSE /\ sentSTMd = FALSE
    /\ stream = [state |-> "STOPPED", bytes |-> 0, disconnect |-> DISCONNECT_OK,
                 sent_headers |-> FALSE, meta_send |-> FALSE]
    /\ decode_state = "DECODE_STOPPED"
    /\ output = [state |-> "OUTPUT_STOPPED", track_started |-> FALSE,
                 completed |-> FALSE, flow |-> FALSE, remote |-> FALSE, start_at |-> 0,
                 index |-> 0]
    /\ render = [state |-> "RD_STOPPED", duration |-> 0, ms_played |-> 0]
    /\ othread = [active |-> FALSE, first |-> FALSE]
    /\ config \in [flow : BOOLEAN, auto : BOOLEAN, name : {PlayerName}]
    /\ wire = <<>>
    /\ due = <<>>
    /\ snd = [pc |-> "idle", len |-> 0, ptr |-> 0, try |-> 0, retried |-> 0,
              debug |-> FALSE, last |-> ""]
    /\ step = "init"
    /\ sent = <<>>
    /\ inp = <<>>
    \* helo: a HELO was sent since the thread started and since the last switch
    /\ hist = [STMs |-> FALSE, STMd |-> FALSE, can |-> FALSE,
               rSTMs |-> FALSE, rNodata |-> FALSE, sync |-> <<>>, exit |-> "",
               STMl |-> FALSE, STMu |-> FALSE, nodata |-> FALSE,
               helo |-> pc = "run"]

\* connected: slimproto() has sent HELO and entered slimproto_run()
Init ==
    /\ pc = "run"
    /\ InitPlay
    /\ config.auto
    /\ running = TRUE
    /\ new_server = 0
    /\ new_server_cap = <<>>
    /\ var_cap = <<>>
    /\ slimproto_ip = ServerIp
    /\ reconnect = FALSE
    /\ failed_connect = 0
    /\ sock = "open"
    /\ expect = 0 /\ got = 0 /\ timeouts = 0 /\ hdr = <<>>
    /\ nframes = 0

StrmPackets ==
    [autostart : 0..3, format : {"?", "p"}, server_ip : {0, 7},
     server_port : {9000}, threshold : {10}]
\* frame lengths: shorter than the struct, and with a 42-byte header
StrmLens == {10, 70}
Jiffies == {12345}

\* a whole frame has arrived and is dispatched
DispatchedUpTo(n) ==
    /\ pc = "run" /\ running /\ new_server = 0
    /\ expect = 0 /\ got = 0
    /\ nframes < n
    /\ nframes' = nframes + 1
    /\ UNCHANGED <<config, loop_vars, net_vars, snd>>
Dispatched == DispatchedUpTo(MaxFrames)
NoInput == inp' = <<>>

RecvStrmT == Dispatched /\ NoInput /\ StrmT
RecvStrmF == Dispatched /\ NoInput /\ StrmF
RecvStrmQ == Dispatched /\ NoInput /\ StrmQ
RecvStrmP == Dispatched /\ NoInput /\ \E i \in {0, 1} : StrmP(i)
RecvStrmA == Dispatched /\ NoInput /\ StrmOther("a")
RecvStrmU == Dispatched /\ NoInput /\ \E j \in Jiffies : StrmU(j)
RecvStrmS ==
    /\ Dispatched
    /\ \E p \in StrmPackets, len \in StrmLens :
          \* the collaborators answer only when process_start is called
          \E e \in IF p.format # "?" /\ ~HeaderTooLong(len) THEN ProcessEnvs
                    ELSE {AllOk} :
             /\ StrmS(p, len, e)
             /\ inp' = [p |-> p, len |-> len, e |-> e]
RecvCont == Dispatched /\ NoInput /\ ProcessCont
RecvCodc == Dispatched /\ NoInput /\ \E e \in ProcessEnvs : ProcessCodc(e)
RecvAude == Dispatched /\ NoInput /\ \E on \in BOOLEAN : ProcessAude(on)
RecvAudg == Dispatched /\ NoInput /\ \E adjust \in BOOLEAN : ProcessAudg(adjust)
\* a setd frame: 5 bytes, or 5 bytes and a name, which may be empty
SetdLens == {5, 9}
SetdNames == {<<>>, <<108, 111, 102, 116>>}
RecvSetd ==
    /\ pc = "run" /\ running /\ new_server = 0
    /\ expect = 0 /\ got = 0
    /\ nframes < MaxFrames
    /\ nframes' = nframes + 1
    /\ NoInput
    /\ \E id \in {0, 1}, len \in SetdLens, data \in SetdNames :
          ProcessSetd(id, len, IF len = 5 THEN <<>> ELSE data)
    /\ UNCHANGED <<loop_vars, net_vars, snd>>

Tick ==
    /\ pc = "run"
    /\ \E tt \in BOOLEAN : StatusTick(tt)
    /\ NoInput
    /\ UNCHANGED <<config, loop_vars, net_vars, snd, nframes>>

\* a track of unknown duration starts rendering
RenderPlayUnknown == RenderPlay(0)

Next ==
    \/ RecvStrmQ \/ RecvStrmP \/ RecvStrmU
    \/ RecvStrmS \/ RecvCont \/ RecvCodc
    \/ Tick
    \/ StreamRecv \/ StreamEnd \/ DecodeEnd
    \/ OutputTrackStarted \/ OutputCompleted
    \/ RenderPlayUnknown \/ RenderStop

Spec == Init /\ [][Next]_vars


(***************************************************************************)
(* send_packet (build without WIN).  snd.pc: "idle", "send" (in the loop,  *)
(* about to call send), "done" (returned with everything sent), "failed"   *)
(* (returned after LOG_WARN).                                              *)
(***************************************************************************)
\* line 97: a would-block result is retried while try < 10
RetryAllowed(try) == try < 10

\* LOG_DEBUG("retrying (%d) writing to socket", ++try): the macro tests the
\* log level of the file (line 55) before it evaluates its arguments
LogDebugTry(debug, try) == IF debug THEN try + 1 ELSE try

SendStepVars == UNCHANGED <<ctl_vars, play_vars, config, conn_vars, net_vars, step,
                            sent, inp, hist, nframes>>

\* a caller hands a packet of len bytes to send_packet; debug: the log level
\* is lDEBUG during the call
SendPacketCall ==
    /\ snd.pc # "send"
    /\ \E len \in 0..MaxSendLen, d \in BOOLEAN :
          snd' = [pc |-> IF len = 0 THEN "done" ELSE "send", len |-> len, ptr |-> 0,
                  try |-> 0, retried |-> 0, debug |-> d, last |-> "call"]
    /\ SendStepVars

\* send() takes n > 0 bytes
SendOk ==
    /\ snd.pc = "send"
    /\ \E n \in 1..snd.len :
          snd' = [snd EXCEPT !.ptr = @ + n, !.len = @ - n, !.last = "ok",
                             !.pc = IF snd.len = n THEN "done" ELSE "send"]
    /\ SendStepVars

\* send() returns -1 with ERROR_WOULDBLOCK
SendWouldBlock ==
    /\ snd.pc = "send"
    /\ snd.retried < MaxRetried
    /\ snd' = IF RetryAllowed(snd.try)
              THEN [snd EXCEPT !.try = LogDebugTry(snd.debug, @),
                               !.retried = @ + 1, !.last = "wouldblock"]
              ELSE [snd EXCEPT !.pc = "failed", !.last = "wouldblock"]
    /\ SendStepVars

\* send() returns 0, or -1 with another error
SendError ==
    /\ snd.pc = "send"
    /\ snd' = [snd EXCEPT !.pc = "failed", !.last = "error"]
    /\ SendStepVars

NextSend == SendPacketCall \/ SendOk \/ SendWouldBlock \/ SendError

SpecSend == Init /\ [][NextSend]_vars


(***************************************************************************)
(* process_serv and the dispatcher                                         *)
(***************************************************************************)
\* strncat(dst, src, n): at most n characters of src, up to its first NUL
RECURSIVE StrPrefix(_, _)
StrPrefix(src, n) ==
    IF n = 0 \/ src = <<>> \/ Head(src) = 0 THEN <<>>
    ELSE <<Head(src)>> \o StrPrefix(Tail(src), n - 1)
strncat(dst, src, n) == dst \o StrPrefix(src, n)

\* serv: f.ip is serv->server_ip, f.data the bytes after the struct
ProcessServ(f) ==
    /\ new_server' = f.ip
    /\ new_server_cap' = IF f.len - ServPacketSize = 10
                         THEN strncat(SYNC_CAP, f.data, 10)
                         ELSE <<>>
    /\ sent' = <<Call("SQ_SETSERVER", <<f.ip>>)>>
    /\ hist' = [hist EXCEPT !.sync = IF f.len - ServPacketSize = 10 THEN f.data ELSE <<>>]
    /\ step' = "serv"
    /\ UNCHANGED <<ctl_vars, play_vars>>

\* ledc, vers (log only) and opcodes without a handler
ProcessNone ==
    /\ sent' = <<>>
    /\ step' = "none"
    /\ UNCHANGED <<ctl_vars, play_vars, hist>>
    /\ NoServ

ProcessStrm(f, e) ==
    CASE f.cmd = "t" -> StrmT
      [] f.cmd = "f" -> StrmF
      [] f.cmd = "q" -> StrmQ
      [] f.cmd = "p" -> StrmP(f.arg)
      [] f.cmd = "u" -> StrmU(f.arg)
      [] f.cmd = "s" -> StrmS(f.s, f.len, e)
      [] OTHER -> StrmOther(f.cmd)

\* process(): dispatch on the first 4 bytes
Process(f, e) ==
    CASE f.opcode = "strm" -> ProcessStrm(f, e)
      [] f.opcode = "cont" -> ProcessCont
      [] f.opcode = "codc" -> ProcessCodc(e)
      [] f.opcode = "serv" -> ProcessServ(f)
      [] OTHER -> ProcessNone


(***************************************************************************)
(* The connection manager slimproto() and the receive loop of              *)
(* slimproto_run().  pc: "disc_start" / "disc_switch" / "disc_retry" (in   *)
(* discover_server, called at startup, on a server switch, after repeated  *)
(* connection failures), "loop" (the test of while (running)), "connect"   *)
(* (socket created, connecting), "run" (in slimproto_run), "after_run"     *)
(* (slimproto_run returned), "close" (closesocket and the end of the loop  *)
(* body), "done".                                                          *)
(***************************************************************************)
ConfiguredIp == 6
SwitchIp == 9
\* "0123456789"
SyncId == <<48, 49, 50, 51, 52, 53, 54, 55, 56, 57>>

AfterDiscover(p) ==
    CASE p = "disc_start" -> "loop"
      [] p = "disc_switch" -> "connect"
      [] p = "disc_retry" -> "close"

\* every step of the connection manager leaves playback alone
ConnStep(name) ==
    /\ step' = name
    /\ inp' = <<>>
    /\ UNCHANGED <<ctl_vars, play_vars, config, snd, nframes>>

\* one round of discover_server: send the discovery, poll 5 s for a reply
Discover ==
    /\ pc \in {"disc_start", "disc_switch", "disc_retry"}
    /\ \E reply \in BOOLEAN :
          IF reply
          THEN /\ slimproto_ip' = (IF slimproto_ip # 0 THEN slimproto_ip ELSE ServerIp)
               /\ pc' = AfterDiscover(pc)
          ELSE IF running
          THEN UNCHANGED <<slimproto_ip, pc>>
          ELSE /\ slimproto_ip' = 0
               /\ pc' = AfterDiscover(pc)
    /\ sent' = <<Call("discovery", <<slimproto_ip, PORT>>)>>
    /\ ConnStep("discover")
    /\ UNCHANGED <<running, new_server, new_server_cap, var_cap, reconnect,
                   failed_connect, sock, expect, got, timeouts, hdr, hist, net_vars>>

\* while (ctx->running) and the server switch at the top of the body
LoopTop ==
    /\ pc = "loop"
    /\ IF ~running
       THEN /\ pc' = "done"
            /\ UNCHANGED <<slimproto_ip, new_server, reconnect, hist>>
       ELSE IF new_server # 0
       THEN /\ slimproto_ip' = new_server
            /\ new_server' = 0
            /\ reconnect' = FALSE
            /\ hist' = [hist EXCEPT !.helo = FALSE]
            /\ pc' = "disc_switch"
       ELSE /\ pc' = "connect"
            /\ UNCHANGED <<slimproto_ip, new_server, reconnect, hist>>
    /\ sent' = <<>>
    /\ ConnStep("loop")
    /\ UNCHANGED <<running, new_server_cap, var_cap, failed_connect, sock, expect,
                   got, timeouts, hdr, net_vars>>

\* variant: the reconnect bit is never set
sendHELOFirst(reconn, cap) == Call("HELO", <<0, cap>>)

\* sendHELO: the reconnect bit of wlan_channellist and the capabilities
sendHELO(reconn, cap) == Call("HELO", <<IF reconn THEN 16384 ELSE 0, cap>>)

\* socket() and connect_timeout(); on success HELO and slimproto_run() begin
Connect ==
    /\ pc = "connect"
    /\ \E ok \in BOOLEAN :
          IF ok
          THEN /\ var_cap' = <<>> \o new_server_cap
               /\ failed_connect' = 0
               /\ new_server_cap' = <<>>
               /\ sent' = <<sendHELO(reconnect, var_cap')>>
               /\ hist' = [hist EXCEPT !.sync = <<>>, !.helo = TRUE]
               /\ pc' = "run"
               /\ step' = "helo"
               /\ UNCHANGED slimproto_ip
          ELSE /\ ~config.auto \/ failed_connect < MaxFailed
               /\ sent' = <<>>
               /\ step' = "connect_failed"
               /\ UNCHANGED <<var_cap, new_server_cap, hist>>
               /\ IF config.auto
                  THEN /\ failed_connect' = failed_connect + 1
                       /\ IF failed_connect + 1 > 5
                          THEN slimproto_ip' = 0 /\ pc' = "disc_retry"
                          ELSE pc' = "close" /\ UNCHANGED slimproto_ip
                  ELSE /\ pc' = "close"
                       /\ UNCHANGED <<failed_connect, slimproto_ip>>
    /\ sock' = "open"
    /\ expect' = 0 /\ got' = 0 /\ timeouts' = 0 /\ hdr' = <<>>
    /\ wire' = <<>> /\ due' = <<>>
    /\ inp' = <<>>
    /\ UNCHANGED <<ctl_vars, play_vars, config, nframes, running, new_server,
                   reconnect, snd>>

\* variant: the manager gives up when slimproto_run() returns
RunReturnedQuits ==
    /\ pc = "after_run"
    /\ pc' = "done"
    /\ sent' = <<>>
    /\ ConnStep("returned")
    /\ UNCHANGED <<running, new_server, new_server_cap, var_cap, slimproto_ip,
                   reconnect, failed_connect, sock, expect, got, timeouts, hdr, hist,
                   net_vars>>

\* slimproto_run() returned
RunReturned ==
    /\ pc = "after_run"
    /\ reconnect' = TRUE
    /\ pc' = "close"
    /\ sent' = <<>>
    /\ ConnStep("returned")
    /\ UNCHANGED <<running, new_server, new_server_cap, var_cap, slimproto_ip,
                   failed_connect, sock, expect, got, timeouts, hdr, hist, net_vars>>

\* closesocket() and the end of the loop body (lines 902-907)
CloseSock ==
    /\ pc = "close"
    /\ sock' = "closed"
    /\ new_server_cap' = <<>>
    /\ wire' = <<>> /\ due' = <<>>
    /\ pc' = "loop"
    /\ sent' = <<>>
    /\ ConnStep("close")
    /\ UNCHANGED <<running, new_server, var_cap, slimproto_ip, reconnect,
                   failed_connect, expect, got, timeouts, hdr, hist>>

\* slimproto_close(), called by another thread
SlimprotoClose ==
    /\ running
    /\ running' = FALSE
    /\ sent' = <<Ev("wake_controller")>>
    /\ ConnStep("stop")
    /\ UNCHANGED <<pc, new_server, new_server_cap, var_cap, slimproto_ip, reconnect,
                   failed_connect, sock, expect, got, timeouts, hdr, hist, net_vars>>

(***************************************************************************)
(* The receive loop.  The locals expect, got and timeouts exist only in    *)
(* slimproto_run(); outside it the model keeps them 0.                     *)
(***************************************************************************)
\* the frames the server sends in the connection specification
NoPacket == [autostart |-> 0, format |-> "?", server_ip |-> 0, server_port |-> 0,
             threshold |-> 0]
Frame(opcode, len, cmd, ip, data) ==
    [opcode |-> opcode, len |-> len, cmd |-> cmd, arg |-> 0, ip |-> ip,
     data |-> data, s |-> NoPacket]
\* serv, strm 't' and vers frames, and a prefix above MAXBUF with no opcode
\* (the body of such a frame is never read)
ConnFrames ==
    {Frame("serv", ServPacketSize, "", ip, <<>>) : ip \in {0, SwitchIp}}
    \cup {Frame("serv", ServPacketSize + 10, "", ip, SyncId) : ip \in {0, SwitchIp}}
    \cup {Frame("strm", StrmPacketSize, "t", 0, <<>>)}
    \cup {Frame("vers", MAXBUF, "", 0, <<>>)}
    \cup {Frame("", MAXBUF + 1, "", 0, <<>>)}
\* frames of the smallest and the largest size, and a bare prefix of 0
FrameKinds ==
    {Frame("vers", len, "", 0, <<>>) : len \in {ServPacketSize, MAXBUF}}
    \cup {Frame("strm", StrmPacketSize, "t", 0, <<>>)}
    \cup {Frame("", len, "", 0, <<>>) : len \in {0, 1}}

\* the length prefix on the wire, and as the loop reads it (line 544)
PrefixBytes(v) == <<v \div 256, v % 256>>
PackN(b) == b[1] * 256 + b[2]

Min(a, b) == IF a < b THEN a ELSE b
Zeros(n) == [i \in 1..n |-> 0]
Pack16(v) == <<(v \div 256) % 256, v % 256>>
Pack32(v) == <<(v \div 16777216) % 256, (v \div 65536) % 256, (v \div 256) % 256,
              v % 256>>
Unpack16(b) == b[1] * 256 + b[2]
Unpack32(b) == b[1] * 16777216 + b[2] * 65536 + b[3] * 256 + b[4]

\* opcodes and strm sub-commands as characters
OpBytes(op) ==
    CASE op = "strm" -> <<115, 116, 114, 109>>
      [] op = "cont" -> <<99, 111, 110, 116>>
      [] op = "codc" -> <<99, 111, 100, 99>>
      [] op = "serv" -> <<115, 101, 114, 118>>
      [] op = "vers" -> <<118, 101, 114, 115>>
OpName(b) ==
    CASE b = <<115, 116, 114, 109>> -> "strm"
      [] b = <<99, 111, 110, 116>> -> "cont"
      [] b = <<99, 111, 100, 99>> -> "codc"
      [] b = <<115, 101, 114, 118>> -> "serv"
      [] b = <<118, 101, 114, 115>> -> "vers"
      [] OTHER -> ""
CmdByte(c) ==
    CASE c = "t" -> 116 [] c = "f" -> 102 [] c = "q" -> 113 [] c = "p" -> 112
      [] c = "u" -> 117 [] c = "s" -> 115 [] OTHER -> 97
CmdName(b) ==
    CASE b = 116 -> "t" [] b = 102 -> "f" [] b = 113 -> "q" [] b = 112 -> "p"
      [] b = 117 -> "u" [] b = 115 -> "s" [] OTHER -> "a"
FormatByte(f) == IF f = "?" THEN 63 ELSE 112
FormatName(b) == IF b = 63 THEN "?" ELSE "p"

\* struct strm_packet on the wire: opcode, command, autostart, format, 4 pcm
\* bytes, threshold, 6 more bytes, replay_gain, server_port, server_ip; then
\* the header
StrmBytes(f) ==
    OpBytes("strm") \o <<CmdByte(f.cmd), 48 + f.s.autostart, FormatByte(f.s.format)>>
    \o Zeros(4) \o <<f.s.threshold>> \o Zeros(6) \o Pack32(f.arg)
    \o Pack16(f.s.server_port) \o Pack32(f.s.server_ip)
    \o [i \in 1..(IF f.len > StrmPacketSize THEN f.len - StrmPacketSize ELSE 0)
           |-> 72]

\* the bytes of a frame as the server sends them, after the length prefix
Encode(f) ==
    CASE f.opcode = "serv" -> OpBytes("serv") \o Pack32(f.ip) \o f.data
      [] f.opcode = "strm" -> SubSeq(StrmBytes(f), 1, f.len)
      [] f.opcode = "vers" -> OpBytes("vers") \o [i \in 1..(f.len - 4) |-> i % 256]
      [] OTHER -> [i \in 1..(IF f.len <= MAXBUF THEN f.len ELSE 0) |-> 120]

\* a byte of the buffer; the handlers read their struct also where the frame
\* is shorter, and find what an earlier frame left there: taken as 0
At(buf, i) == IF i <= Len(buf) THEN buf[i] ELSE 0
Bytes(buf, i, j) == [k \in 1..(j - i + 1) |-> At(buf, i + k - 1)]

\* the frame as process() and the handlers read it from the buffer: the opcode
\* is compared on 4 bytes, and a frame of one byte never matches because the
\* second byte of the buffer then still holds the low byte of its prefix
Parse(buf) ==
    LET op == IF Len(buf) >= 4 THEN OpName(SubSeq(buf, 1, 4)) ELSE ""
    IN  [opcode |-> op,
         len    |-> Len(buf),
         cmd    |-> IF op = "strm" THEN CmdName(At(buf, 5)) ELSE "",
         arg    |-> IF op = "strm" THEN Unpack32(Bytes(buf, 19, 22)) ELSE 0,
         ip     |-> IF op = "serv" THEN Unpack32(Bytes(buf, 5, 8)) ELSE 0,
         data   |-> IF op = "serv" THEN SubSeq(buf, ServPacketSize + 1, Len(buf))
                    ELSE <<>>,
         s      |-> IF op = "strm"
                    THEN [autostart   |-> At(buf, 6) - 48,
                          format      |-> FormatName(At(buf, 7)),
                          server_ip   |-> Unpack32(Bytes(buf, 25, 28)),
                          server_port |-> Unpack16(Bytes(buf, 23, 24)),
                          threshold   |-> At(buf, 12)]
                    ELSE NoPacket]

\* the server sends a frame, length prefix and body, while at most room bytes
\* it sent before are unread
ServerSendOf(frames, room) ==
    /\ pc = "run" /\ sock = "open"
    /\ Len(wire) <= room
    /\ nframes < MaxFrames
    /\ \E f \in frames :
          /\ wire' = wire \o PrefixBytes(f.len) \o Encode(f)
          /\ due' = IF 1 <= f.len /\ f.len <= MAXBUF THEN Append(due, f) ELSE due
    /\ nframes' = nframes + 1
    /\ step' = "server"
    /\ sent' = <<>>
    /\ inp' = <<>>
    /\ UNCHANGED <<ctl_vars, play_vars, config, conn_vars, snd, hist>>
ServerSend == ServerSendOf(ConnFrames, 0)
ServerSendBurst == ServerSendOf(FrameKinds, MAXBUF + 2)

\* variant: recv() is given the room left in the buffer
BodyWantBuffer(exp) == MAXBUF

\* line 519: recv() is asked for at most expect bytes
BodyWant(exp) == exp

\* what one recv() of at most want bytes may return: all of them, or, on the
\* first read of a body, only the first byte or all but the last
Chunks(done, want) == IF done = 0 THEN {1, want - 1, want} ELSE {want}

\* variant: no frame is too big
FrameNeverTooBig(len) == FALSE

\* line 546
FrameTooBig(len) == len > MAXBUF

\* variant: the receive loop does not look at running
LoopCondNoStop == new_server = 0

\* while (ctx->running && !ctx->new_server)
LoopCond == running /\ new_server = 0

InLoop == pc = "run" /\ LoopCond

\* what an iteration that dispatches nothing leaves alone
NoDispatch ==
    /\ sent' = <<>>
    /\ inp' = <<>>
    /\ UNCHANGED <<ctl_vars, play_vars, config, new_server, new_server_cap, snd>>

Returns(why) ==
    /\ pc' = "after_run"
    /\ hist' = [hist EXCEPT !.exit = why]
    /\ expect' = 0 /\ got' = 0 /\ timeouts' = 0

\* the loop condition fails
LoopExit ==
    /\ pc = "run" /\ ~LoopCond
    /\ Returns(IF running THEN "switch" ELSE "stop")
    /\ hdr' = <<>>
    /\ step' = "loop_exit"
    /\ NoDispatch
    /\ UNCHANGED <<running, var_cap, slimproto_ip, reconnect, failed_connect, sock,
                   nframes, net_vars>>

\* EVENT_READ with expect = 0: recv() of at most 2 - got bytes of the prefix
RecvPrefix ==
    /\ InLoop /\ expect = 0 /\ wire # <<>>
    /\ \E n \in 1..Min(2 - got, Len(wire)) :
          LET buf == SubSeq(hdr, 1, got) \o SubSeq(wire, 1, n)
          IN  /\ wire' = SubSeq(wire, n + 1, Len(wire))
              /\ hdr' = buf
              /\ IF got + n = 2
                 THEN /\ IF FrameTooBig(PackN(buf))
                         THEN Returns("oversize")
                         ELSE /\ expect' = PackN(buf)
                              /\ got' = 0 /\ timeouts' = 0
                              /\ UNCHANGED <<pc, hist>>
                 ELSE /\ got' = got + n
                      /\ timeouts' = 0
                      /\ UNCHANGED <<pc, expect, hist>>
    /\ step' = "recv_prefix"
    /\ NoDispatch
    /\ UNCHANGED <<running, var_cap, slimproto_ip, reconnect, failed_connect, sock,
                   nframes, due>>

\* EVENT_READ with expect > 0: recv() of at most expect bytes of the body; the
\* frame is dispatched when it is complete.  envs: what the collaborators may
\* answer to the handler.
RecvBodyOf(envs) ==
    /\ InLoop /\ expect > 0 /\ wire # <<>>
    /\ \E n \in {m \in Chunks(got, Min(BodyWant(expect), Len(wire))) : 1 <= m} :
          LET buf == SubSeq(hdr, 1, got) \o SubSeq(wire, 1, n)
          IN  /\ wire' = SubSeq(wire, n + 1, Len(wire))
              /\ expect' = expect - n
              /\ IF expect - n = 0
                 THEN /\ got' = 0
                      /\ hdr' = <<>>
                      /\ due' = IF due = <<>> THEN due ELSE Tail(due)
                      /\ \E e \in envs : Process(Parse(buf), e)
                      /\ inp' = [buf |-> buf, len |-> got + n]
                      /\ UNCHANGED snd
                 ELSE /\ got' = got + n
                      /\ hdr' = buf
                      /\ step' = "recv_body"
                      /\ hist' = hist
                      /\ NoDispatch
                      /\ UNCHANGED due
    /\ timeouts' = 0
    /\ UNCHANGED <<config, pc, running, var_cap, slimproto_ip, reconnect,
                   failed_connect, sock, nframes>>
RecvBody == RecvBodyOf({AllOk})

\* recv() returns 0 (closed) or an error other than ERROR_WOULDBLOCK
RecvFailed ==
    /\ InLoop
    /\ Returns("closed")
    /\ hdr' = <<>>
    /\ step' = "recv_failed"
    /\ NoDispatch
    /\ UNCHANGED <<running, var_cap, slimproto_ip, reconnect, failed_connect, sock,
                   nframes, net_vars>>

\* EVENT_WAKE
Wake ==
    /\ InLoop
    /\ timeouts' = 0
    /\ step' = "wake"
    /\ NoDispatch
    /\ UNCHANGED <<pc, running, var_cap, slimproto_ip, reconnect, failed_connect,
                   sock, expect, got, hdr, hist, nframes, net_vars>>

\* EVENT_READ, and recv() reports ERROR_WOULDBLOCK: continue (lines 521-523 and
\* 536-538), which skips the rest of the iteration, timeouts = 0 included
RecvWouldBlock ==
    /\ InLoop
    /\ step' = "would_block"
    /\ NoDispatch
    /\ UNCHANGED <<pc, running, var_cap, slimproto_ip, reconnect, failed_connect,
                   sock, expect, got, timeouts, hdr, hist, nframes, net_vars>>

\* variant: the connection is declared dead one wait earlier
WatchdogExpiredEarly(t) == t >= 35

\* line 573, t being the incremented count: ++timeouts > 35
WatchdogExpired(t) == t > 35

\* EVENT_TIMEOUT: one second without an event
WaitTimeout ==
    /\ InLoop
    /\ IF WatchdogExpired(timeouts + 1)
       THEN Returns("watchdog") /\ hdr' = <<>>
       ELSE /\ timeouts' = timeouts + 1
            /\ UNCHANGED <<pc, expect, got, hdr, hist>>
    /\ step' = "timeout"
    /\ NoDispatch
    /\ UNCHANGED <<running, var_cap, slimproto_ip, reconnect, failed_connect, sock,
                   nframes, net_vars>>

\* a wait that times out while the server has not been silent for long
ShortWait == timeouts < MaxWaits /\ WaitTimeout

(***************************************************************************)
(* The connection specification: from slimproto_thread_init() on, with an  *)
(* idle player and a server that is never silent for long.                 *)
(***************************************************************************)
InitConn ==
    /\ pc = "disc_start"
    /\ InitPlay
    /\ ~config.flow
    /\ running = TRUE
    /\ new_server = 0
    /\ new_server_cap = <<>>
    /\ var_cap = <<>>
    /\ slimproto_ip = (IF config.auto THEN 0 ELSE ConfiguredIp)
    /\ reconnect = FALSE
    /\ failed_connect = 0
    /\ sock = "closed"
    /\ expect = 0 /\ got = 0 /\ timeouts = 0 /\ hdr = <<>>
    /\ nframes = 0

NextConn ==
    \/ Discover \/ LoopTop \/ Connect \/ RunReturned \/ CloseSock
    \/ SlimprotoClose
    \/ ServerSend
    \/ LoopExit \/ RecvPrefix \/ RecvBody \/ RecvWouldBlock \/ RecvFailed
    \/ Wake \/ ShortWait
    \/ Tick

SpecConn == InitConn /\ [][NextConn]_vars

(***************************************************************************)
(* The watchdog specification: the server sends time checks and may fall   *)
(* silent for any time; the player is never stopped.                       *)
(***************************************************************************)
WatchFrames == {Frame("strm", StrmPacketSize, "t", 0, <<>>)}
ServerSendTime == ServerSendOf(WatchFrames, 0)

NextWatch ==
    \/ Discover \/ LoopTop \/ Connect \/ RunReturned \/ CloseSock
    \/ ServerSendTime
    \/ RecvPrefix \/ RecvBody \/ RecvWouldBlock \/ RecvFailed
    \/ Wake \/ WaitTimeout
    \/ Tick

SpecWatch == InitConn /\ [][NextWatch]_vars

(***************************************************************************)
(* The recovery specification: the player is never stopped; the server     *)
(* answers discovery, accepts a connection again and again, and sends      *)
(* frames that are in error as well as a good strm 's'; the stream and the *)
(* decoder may fail.                                                       *)
(***************************************************************************)
StartPacket == [autostart |-> 1, format |-> "p", server_ip |-> 0, server_port |-> 9000,
                threshold |-> 10]
\* strm 's' with a 42-byte header and with a length below the struct's, a
\* frame with no known opcode, and a length prefix above MAXBUF
RecoverFrames ==
    {[Frame("strm", len, "s", 0, <<>>) EXCEPT !.s = StartPacket] : len \in StrmLens}
    \cup {Frame("", len, "", 0, <<>>) : len \in {ServPacketSize, MAXBUF + 1}}
\* the codec is known or not
RecoverEnvs == {AllOk, [AllOk EXCEPT !.copen = FALSE]}

ServerSendRecover == ServerSendOf(RecoverFrames, 0)
\* the network delivers a prefix and a body whole
RecvPrefixWhole == RecvPrefix /\ got' = 0
RecvBodyRecover == RecvBodyOf(RecoverEnvs) /\ expect' = 0
\* the server is silent for long only before its first frame
SilentWait == nframes = 0 /\ WaitTimeout
DiscoverAnswered == Discover /\ pc' # pc
ConnectAccepted == Connect /\ pc' = "run"
ConnectRefused == Connect /\ pc' # "run"

NextRecover ==
    \/ DiscoverAnswered \/ LoopTop \/ ConnectAccepted \/ ConnectRefused
    \/ RunReturned \/ CloseSock
    \/ ServerSendRecover
    \/ RecvPrefixWhole \/ RecvBodyRecover \/ RecvWouldBlock \/ RecvFailed
    \/ Wake \/ ShortWait \/ SilentWait
    \/ Tick
    \/ StreamRecv \/ StreamEnd \/ DecodeEnd

\* the controller thread keeps running, and a server that is asked again and
\* again accepts in the end
RecoverFairness ==
    /\ WF_vars(DiscoverAnswered \/ LoopTop \/ RunReturned \/ CloseSock)
    /\ SF_vars(ConnectAccepted)

SpecRecover == InitConn /\ [][NextRecover]_vars /\ RecoverFairness

(***************************************************************************)
(* The framing specification: a connected controller, and a server that    *)
(* sends frames back to back.                                              *)
(***************************************************************************)
NextFrame ==
    \/ ServerSendBurst
    \/ RecvPrefix \/ RecvBody \/ RecvWouldBlock
    \/ Wake \/ ShortWait
    \/ Tick

SpecFrame == Init /\ [][NextFrame]_vars

\* The controller thread keeps running: its blocking calls (poll, connect,
\* sleep, wait_readwake) return, so the step it is at is eventually taken.
ControllerStep ==
    \/ Discover \/ LoopTop \/ Connect \/ RunReturned \/ CloseSock \/ LoopExit

SpecStop == SpecConn /\ WF_vars(ControllerStep)

(***************************************************************************)
(* The command specification: the sub-commands of strm that the playback   *)
(* specification leaves out (t, f, a) next to q and s, and ICY metadata.   *)
(***************************************************************************)
NextCmd ==
    \/ RecvStrmT \/ RecvStrmF \/ RecvStrmQ \/ RecvStrmA
    \/ RecvStrmS
    \/ Tick
    \/ StreamRecv \/ StreamEnd \/ StreamMeta

SpecCmd == Init /\ [][NextCmd]_vars

(***************************************************************************)
(* The handler specification: every opcode handler that takes a mutex,     *)
(* calls the player or sends a frame, next to the ticker.                  *)
(***************************************************************************)
NextLock ==
    \/ RecvStrmT \/ RecvStrmF \/ RecvStrmQ \/ RecvStrmP \/ RecvStrmU
    \/ RecvStrmS \/ RecvCont \/ RecvCodc
    \/ RecvAude \/ RecvAudg \/ RecvSetd
    \/ Tick
    \/ StreamRecv \/ StreamEnd \/ StreamMeta \/ DecodeEnd
    \/ OutputTrackStarted \/ OutputCompleted

SpecLock == Init /\ [][NextLock]_vars

(***************************************************************************)
(* The remote-source specification: one track, local or remote, of known   *)
(* or unknown duration, played outside flow mode while the renderer        *)
(* reports its position.                                                   *)
(***************************************************************************)
InitRemote == Init /\ ~config.flow

RemotePackets ==
    [autostart : {0, 1}, format : {"p"}, server_ip : {0},
     server_port : {9000}, threshold : {10}]
RemoteEnvs ==
    {[remote |-> r, mime |-> TRUE, copen |-> TRUE, ostart |-> TRUE, cb |-> TRUE] :
        r \in BOOLEAN}

RecvStart ==
    /\ DispatchedUpTo(MaxStarts)
    /\ \E p \in RemotePackets, e \in RemoteEnvs :
          /\ StrmS(p, 70, e)
          /\ inp' = [p |-> p, len |-> 70, e |-> e]

\* a track of known duration starts rendering
RenderPlayTrack == RenderPlay(MaxDuration)

NextRemote ==
    \/ RecvStart
    \/ Tick
    \/ StreamRecv \/ StreamEnd \/ DecodeEnd
    \/ OutputTrackStarted \/ OutputCompleted
    \/ RenderPlayUnknown \/ RenderPlayTrack \/ RenderProgress \/ RenderStop

SpecRemote == InitRemote /\ [][NextRemote]_vars

(***************************************************************************)
(* The status specification: one track of a stream that carries ICY        *)
(* metadata, so that a ticker invocation can select any of its frames.     *)
(***************************************************************************)
NextStatus ==
    \/ RecvStart
    \/ Tick
    \/ StreamRecv \/ StreamEnd \/ StreamMeta \/ DecodeEnd
    \/ OutputTrackStarted \/ OutputCompleted
    \/ RenderPlayUnknown \/ RenderStop

SpecStatus == InitRemote /\ [][NextStatus]_vars

(***************************************************************************)
(* The handover specification: the server starts a track, then announces   *)
(* the next one with a strm 's' of format '?' and lets cont and codc       *)
(* follow, while the first track is still being played out.                *)
(***************************************************************************)
HandoverPackets ==
    {[autostart |-> a, format |-> IF a = 1 THEN "p" ELSE "?", server_ip |-> 0,
      server_port |-> 9000, threshold |-> 10] : a \in {1, 3}}

HandoverStart ==
    /\ DispatchedUpTo(MaxHandover)
    /\ \E p \in HandoverPackets :
          /\ StrmS(p, 70, AllOk)
          /\ inp' = [p |-> p, len |-> 70, e |-> AllOk]
HandoverCont == DispatchedUpTo(MaxHandover) /\ NoInput /\ ProcessCont
HandoverCodc == DispatchedUpTo(MaxHandover) /\ NoInput /\ ProcessCodc(AllOk)

NextHandover ==
    \/ HandoverStart \/ HandoverCont \/ HandoverCodc
    \/ Tick
    \/ StreamRecv \/ DecodeEnd
    \/ OutputTrackStarted \/ OutputCompleted

SpecHandover == InitRemote /\ [][NextHandover]_vars

(***************************************************************************)
(* The pause specification: a track is started and played, paused with a   *)
(* zero or a non-zero interval and resumed at a time the server names.     *)
(***************************************************************************)
MaxPause == 3       \* frames the server sends in the pause specification
PauseIntervals == {0, 250}
PauseJiffies == {500, 12345}

PauseStart ==
    /\ DispatchedUpTo(MaxPause)
    /\ \E p \in RemotePackets :
          /\ StrmS(p, 70, AllOk)
          /\ inp' = [p |-> p, len |-> 70, e |-> AllOk]
PauseP ==
    /\ DispatchedUpTo(MaxPause)
    /\ \E i \in PauseIntervals : StrmP(i) /\ inp' = [interval |-> i]
PauseU ==
    /\ DispatchedUpTo(MaxPause)
    /\ \E j \in PauseJiffies : StrmU(j) /\ inp' = [jiffies |-> j]

NextPause ==
    \/ PauseStart \/ PauseP \/ PauseU
    \/ Tick
    \/ StreamRecv \/ OutputTrackStarted

SpecPause == InitRemote /\ [][NextPause]_vars

(***************************************************************************)
(* Properties of the status messages of a track                            *)
(***************************************************************************)
\* the ticker runs in this step and sends the frame
TickEmits(name) == step' = "tick" /\ name \in Names(sent')
\* the state right after a ticker invocation that sent the frame
TickSent(name) == step = "tick" /\ name \in Names(sent)
Latches == <<canSTMdu, sentSTMu, sentSTMo, sentSTMl, sentSTMd>>
LatchesClear == ~canSTMdu /\ ~sentSTMu /\ ~sentSTMo /\ ~sentSTMl /\ ~sentSTMd

\* C1: between two consecutive strm 's' the ticker emits STMs at most once: a
\* tick emits STMs only when none was emitted since the last strm 's'.
C1_AtMostOneSTMs == [][TickEmits("STMs") => ~hist.STMs]_vars

\* C2 as stated: whenever a tick emits STMd, STMu or STMo, an STMs was emitted
\* since the most recent strm 's' (earlier, or in the same tick).
C2_STMsSinceLastStart ==
    (TickSent("STMd") \/ TickSent("STMu") \/ TickSent("STMo")) => hist.STMs

\* C2: whenever a tick emits STMd, STMu or STMo then, since the last strm 's'
\* that reset the latches, an STMs was emitted (in an earlier tick, or earlier
\* in the same tick) or a tick took the 'nothing received' path.
C2_STMsOrNothingReceived ==
    (TickSent("STMd") \/ TickSent("STMu") \/ TickSent("STMo")) =>
        /\ hist.rSTMs \/ hist.rNodata
        /\ Before(sent, "STMs", "STMd") /\ Before(sent, "STMs", "STMu")
        /\ Before(sent, "STMs", "STMo")

C2_Witness == TickSent("STMd") /\ hist.rSTMs /\ ~TickSent("STMs") /\ ~hist.rNodata

\* C3: STMd is emitted at most once between two consecutive strm 's',
\* and only in a tick in which canSTMdu is true, canSTMdu having been set after
\* the last strm 's'.
C3_OnceAfterCanSetSinceStart ==
    [][TickEmits("STMd") => (~hist.STMd /\ canSTMdu' /\ hist'.can)]_vars

\* C5 as stated: every strm 's' leaves the five latches false.
C5_EveryStartClears == (step = "strm_s") => LatchesClear

\* C5: a strm 's' whose header fits (frame not shorter than the struct, header
\* of at most MAX_HEADER-1 bytes) and that names a format or has autostart >= 2
\* leaves the five latches false; any other strm 's' leaves them unchanged.
C5_AcceptedStartClears ==
    [][step' = "strm_s" =>
          IF \/ inp'.len < StrmPacketSize
             \/ inp'.len - StrmPacketSize > MAX_HEADER - 1
             \/ (inp'.p.format = "?" /\ inp'.p.autostart < 2)
          THEN UNCHANGED Latches
          ELSE LatchesClear']_vars

C5_Witness ==
    /\ step = "strm_s" /\ LatchesClear /\ nframes = 2
    /\ inp.len = 70 /\ inp.p.format = "?" /\ inp.p.autostart = 2

\* the strm 's' just handled named a format, its header fits and the
\* negotiation failed on the codec
FailedStart ==
    /\ step = "strm_s"
    /\ inp.p.format # "?" /\ ~inp.e.copen
    /\ inp.len >= StrmPacketSize /\ inp.len - StrmPacketSize <= MAX_HEADER - 1

\* C9 as stated: a strm 's' with a format other than '?', a negotiation that
\* fails and autostart 1 sends STMn and does not call stream_sock.
C9_NoStreamSock ==
    (FailedStart /\ inp.p.autostart = 1) =>
        ("STMn" \in Names(sent) /\ "stream_sock" \notin Names(sent))

\* C9: a strm 's' with a format other than '?', a negotiation that fails and
\* autostart 1 calls stream_sock once, then sends STMc, then sends STMn.
C9_StreamSockThenSTMn ==
    (FailedStart /\ inp.p.autostart = 1) =>
        /\ Count(sent, "stream_sock") = 1
        /\ Count(sent, "STMc") = 1
        /\ Count(sent, "STMn") = 1
        /\ Before(sent, "stream_sock", "STMc")
        /\ Before(sent, "STMc", "STMn")

C9_Witness ==
    /\ FailedStart /\ inp.p.autostart = 1
    /\ {"stream_sock", "STMn"} \subseteq Names(sent)

\* C10: a strm 's' with a format other than '?' and a header of at most
\* MAX_HEADER-1 bytes sends STMf first, calls stream_sock exactly once with the
\* packet's ip (the server's when the field is 0), port, header, header length
\* and threshold*1024, then sends STMc; an STMn is sent after STMc, and only
\* when the negotiation failed.
C10_StartOrder ==
    (/\ step = "strm_s" /\ inp.p.format # "?"
     /\ inp.len >= StrmPacketSize /\ inp.len - StrmPacketSize <= MAX_HEADER - 1) =>
        /\ sent[1] = Ev("STMf")
        /\ Count(sent, "STMf") = 1
        /\ Count(sent, "stream_sock") = 1
        /\ Count(sent, "STMc") = 1
        /\ \E i \in 1..Len(sent) :
              /\ sent[i].ev = "stream_sock"
              /\ sent[i].arg[1] = (IF inp.p.server_ip = 0 THEN slimproto_ip
                                   ELSE inp.p.server_ip)
              /\ sent[i].arg[2] = inp.p.server_port
              /\ sent[i].arg[3] = "header"
              /\ sent[i].arg[4] = inp.len - StrmPacketSize
              /\ sent[i].arg[5] = inp.p.threshold * 1024
        /\ Before(sent, "STMf", "stream_sock")
        /\ Before(sent, "stream_sock", "STMc")
        /\ Before(sent, "STMc", "STMn")
        /\ ~inp.e.copen => "STMn" \in Names(sent)
        /\ (inp.e.mime /\ inp.e.copen /\ inp.e.ostart /\ inp.e.cb)
               => "STMn" \notin Names(sent)

C10_Witness ==
    /\ step = "strm_s" /\ inp.p.format # "?" /\ inp.p.server_ip = 0
    /\ {"STMf", "codec_open", "stream_sock", "STMc"} \subseteq Names(sent)
    /\ "STMn" \notin Names(sent)

\* the ticker runs on a remote source outside flow mode with the decoder
\* COMPLETE, canSTMdu true and the output ready
RemoteTick ==
    /\ step' = "tick"
    /\ output.remote /\ ~output.flow
    /\ decode_state = "DECODE_COMPLETE" /\ canSTMdu /\ output.completed

\* C4 as stated: in such a tick STMd is not emitted where duration - ms_played
\* >= STREAM_DELAY, and it is emitted once ms_played >= duration - STREAM_DELAY.
C4_GatedOnRemaining ==
    [][RemoteTick =>
          /\ (render.duration - render.ms_played >= STREAM_DELAY)
                 => "STMd" \notin Names(sent')
          /\ (render.ms_played >= render.duration - STREAM_DELAY)
                 => "STMd" \in Names(sent')]_vars

\* C4: in such a tick STMd is not emitted when the duration is unknown (0) or
\* duration - ms_played >= STREAM_DELAY, and it is emitted when the duration is
\* known and 0 <= duration - ms_played < STREAM_DELAY.
C4_GatedOnKnownDuration ==
    [][RemoteTick =>
          /\ (\/ render.duration = 0
              \/ /\ render.ms_played <= render.duration
                 /\ render.duration - render.ms_played >= STREAM_DELAY)
                 => "STMd" \notin Names(sent')
          /\ (/\ render.duration # 0
              /\ render.ms_played <= render.duration
              /\ render.duration - render.ms_played < STREAM_DELAY)
                 => "STMd" \in Names(sent')]_vars

C4_Witness ==
    /\ TickSent("STMd") /\ output.remote /\ ~output.flow
    /\ render.duration = MaxDuration /\ render.ms_played > 0

\* C8: a strm 'q' that follows a strm 'q' makes no SQ_STOP callback, a strm 'q'
\* that follows anything else makes exactly one; every strm 'f' sends one STMf,
\* also when it follows a strm 'f'.
C8_StopOnceFlushAlways ==
    [][/\ step' = "strm_q" =>
             Count(sent', "SQ_STOP") = (IF last_command = "q" THEN 0 ELSE 1)
       /\ step' = "strm_f" => Count(sent', "STMf") = 1]_vars

C8_Witness ==
    /\ step = "strm_q" /\ nframes = 2
    /\ "SQ_STOP" \notin Names(sent)

(***************************************************************************)
(* Properties of one ticker invocation                                     *)
(***************************************************************************)
TickOrder == <<"DSCO", "STMs", "STMt", "STMl", "STMd", "STMu", "STMo", "STMn",
               "RESP", "META">>
TickFrames == {TickOrder[i] : i \in 1..Len(TickOrder)}
Rank(name) == CHOOSE i \in 1..Len(TickOrder) : TickOrder[i] = name

\* C11: the frames one ticker invocation sends are in the relative order DSCO,
\* STMs, STMt, STMl, STMd, STMu, STMo, STMn, RESP, META, each at most once,
\* whatever subset is sent.
C11_FixedOrder ==
    step = "tick" =>
        \A i, j \in 1..Len(sent) :
            (i < j /\ sent[i].ev \in TickFrames /\ sent[j].ev \in TickFrames)
                => Rank(sent[i].ev) < Rank(sent[j].ev)

C11_Witness ==
    /\ step = "tick"
    /\ {"STMl", "RESP", "META"} \subseteq Names(sent)

\* the mutexes the controller holds after the first i operations of s
Mutexes == {"S", "O", "D"}
Held(s, i) ==
    {m \in Mutexes :
        \E j \in 1..i :
            /\ s[j].ev = "LOCK_" \o m
            /\ \A k \in (j + 1)..i : s[k].ev # "UNLOCK_" \o m}
\* the position of the first acquisition of m in s
FirstLock(s, m) ==
    CHOOSE i \in 1..Len(s) :
        /\ s[i].ev = "LOCK_" \o m
        /\ \A j \in 1..(i - 1) : s[j].ev # "LOCK_" \o m

\* C12 as stated: at no point of a ticker invocation does the controller hold
\* two of the streambuf, outputbuf and decode mutexes.
C12_NeverTwoMutexes ==
    step = "tick" => \A i \in 1..Len(sent) : Cardinality(Held(sent, i)) <= 1

\* C12: in a ticker invocation the streambuf, outputbuf and decode mutexes are
\* first taken in this order, the streambuf mutex is never held together with
\* another one and all are released at the end; two mutexes are held together
\* only when the invocation starts the decoder with autostart 1: the outputbuf
\* mutex is then taken and released while the decode mutex is held.
C12_OutputInsideDecodeOnly ==
    step = "tick" =>
        /\ FirstLock(sent, "S") < FirstLock(sent, "O")
        /\ FirstLock(sent, "O") < FirstLock(sent, "D")
        /\ Held(sent, Len(sent)) = {}
        /\ \A i \in 1..Len(sent) :
              Cardinality(Held(sent, i)) > 1 =>
                  /\ Held(sent, i) = {"O", "D"}
                  /\ Held(sent, i - 1) = {"D"}
                  /\ autostart = 1
                  /\ "SQ_PLAY" \in Names(sent)
        /\ (autostart = 1 /\ "SQ_PLAY" \in Names(sent)) =>
              \E i \in 1..Len(sent) : Held(sent, i) = {"O", "D"}

C12_Witness ==
    /\ step = "tick"
    /\ \E i \in 1..Len(sent) : Held(sent, i) = {"O", "D"}

(***************************************************************************)
(* Properties of the connection                                            *)
(***************************************************************************)
\* C6: after a serv with exactly 10 trailing bytes, the var_cap sent in the next
\* HELO is ",SyncgroupID=" followed by those 10 bytes.
C6_SyncCapInNextHelo ==
    [][(step' = "helo" /\ hist.sync # <<>>) =>
          sent'[1].arg[2] = SYNC_CAP \o hist.sync]_vars

\* the receive loop has just read a complete length prefix above 4096
OversizeRead ==
    /\ step' = "recv_prefix" /\ Len(hdr') = 2
    /\ hdr'[1] * 256 + hdr'[2] > 4096

\* C7: when the big-endian length prefix is above 4096 the receive loop returns
\* with no handler dispatched and no body read (the loop never waits for a body
\* of more than 4096 bytes); the connection manager then closes the socket and,
\* the controller still running, connects again with the reconnect flag set.
C7_OversizeFatal ==
    /\ [](pc = "run" => expect <= 4096)
    /\ [][OversizeRead =>
             /\ pc' = "after_run" /\ hist'.exit = "oversize"
             /\ sent' = <<>>
             /\ UNCHANGED <<ctl_vars, play_vars, new_server, new_server_cap, sock>>]_vars
    /\ [][(hist.exit = "oversize" /\ pc # pc') =>
             /\ pc = "after_run" => pc' = "close"
             /\ pc = "close" => (pc' = "loop" /\ sock' = "closed")
             /\ (pc = "loop" /\ running) => (pc' = "connect" /\ reconnect)]_vars

C7_Witness ==
    /\ pc = "connect" /\ hist.exit = "oversize"
    /\ sock = "closed" /\ reconnect /\ hdr = <<16, 1>>

\* a wake event, or a read event whose recv() returned bytes, and the loop goes on
DataOrWake ==
    /\ pc = "run" /\ pc' = "run"
    /\ step' \in {"wake", "recv_prefix", "recv_body", "serv", "strm_t", "none"}

\* the 36th wait in a row makes the loop return, an earlier one is counted
WatchdogStep ==
    step' = "timeout" =>
        IF timeouts >= 35
        THEN pc' = "after_run" /\ hist'.exit = "watchdog" /\ sent' = <<>>
        ELSE pc' = "run" /\ timeouts' = timeouts + 1

\* after the return the manager closes the socket and, still running, connects
\* again; the HELO it sends then has wlan_channellist 0x4000
WatchdogReconnect ==
    /\ (hist.exit = "watchdog" /\ pc # pc') =>
          /\ pc = "after_run" => pc' = "close"
          /\ pc = "close" => (pc' = "loop" /\ sock' = "closed")
          /\ (pc = "loop" /\ running) => (pc' = "connect" /\ reconnect)
    /\ (hist.exit = "watchdog" /\ step' = "helo") => sent'[1].arg[1] = 16384

\* C13 as stated: the loop returns at the 36th consecutive 1-second wait and
\* the manager reconnects with wlan_channellist 0x4000; every read or wake
\* event before that resets the count.
C13_AnyReadOrWakeResets ==
    [][/\ WatchdogStep
       /\ WatchdogReconnect
       /\ (DataOrWake \/ step' = "would_block") => timeouts' = 0]_vars

\* C13: the loop returns at the 36th consecutive 1-second wait and the manager
\* reconnects with wlan_channellist 0x4000; a wake event and a read event
\* whose recv() returns bytes reset the count, a read event whose recv()
\* reports would-block leaves the count as it is.
C13_DataOrWakeResets ==
    [][/\ WatchdogStep
       /\ WatchdogReconnect
       /\ DataOrWake => timeouts' = 0
       /\ step' = "would_block" => UNCHANGED <<timeouts, pc>>]_vars

C13_Witness ==
    /\ step = "helo" /\ hist.exit = "watchdog"
    /\ sent[1].arg[1] = 16384

\* C14: the wlan_channellist of a HELO is 0x4000 when a HELO was sent earlier
\* since the thread started and since the last server switch, and 0 otherwise,
\* whatever connection attempts failed in between.
C14_ReconnectBit ==
    [][step' = "helo" =>
          sent'[1].arg[1] = (IF hist.helo THEN 16384 ELSE 0)]_vars

C14_Witness ==
    /\ step = "helo" /\ hist.exit = "switch"
    /\ sent[1].arg[1] = 0

\* C15: with config.server "?" discovery is re-run at the 5th consecutive
\* failed connection attempt and at no other; a successful connection resets
\* the count; with an explicit server discovery is never re-run after a
\* failed attempt.
C15_RediscoverAtFive ==
    [][/\ step' = "connect_failed" =>
             (pc' = "disc_retry" <=> (config.auto /\ failed_connect' = 5))
       /\ step' = "helo" => failed_connect' = 0]_vars

\* C16: once slimproto_close has set running to false, the controller thread
\* eventually terminates with its control socket closed, wherever it was.
C16_StopTerminates == ~running ~> (pc = "done" /\ sock = "closed")

C16_Witness ==
    /\ pc = "done" /\ sock = "closed" /\ ~running
    /\ hist.exit = "stop" /\ step = "loop"

\* a read completes a frame body and the frame is handed to process()
FrameDispatched == pc = "run" /\ pc' = "run" /\ expect > 0 /\ expect' = 0

\* a read completes a length prefix that announces a body
PrefixComplete == step' = "recv_prefix" /\ expect = 0 /\ expect' > 0

\* C19: every frame the server sends with a length of 1 to 4096, however
\* recv() splits it and however wakes, would-block results and timeouts fall
\* in between, is dispatched exactly once, with exactly its own bytes and its
\* own length; the two bytes after a frame body are read as the next length
\* prefix.
C19_FramingExact ==
    /\ []((pc = "run" /\ wire = <<>>) => (due = <<>> /\ expect = 0 /\ got = 0))
    /\ [][FrameDispatched =>
             /\ due # <<>>
             /\ inp'.buf = Encode(Head(due))
             /\ inp'.len = Head(due).len
             /\ due' = Tail(due)]_vars
    /\ [][PrefixComplete =>
             /\ due # <<>>
             /\ expect' = Head(due).len
             /\ got' = 0]_vars

C19_Witness ==
    /\ step = "none" /\ inp.len = MAXBUF
    /\ Len(wire) = MAXBUF + 2 /\ Len(due) = 1

C20_ContOnce ==
    [][step' = "cont" =>
          IF autostart \in {2, 3}
          THEN /\ autostart' = autostart - 2
               /\ stream' = IF stream.state = "STREAMING_WAIT"
                            THEN [stream EXCEPT !.state = "STREAMING_BUFFERING"]
                            ELSE stream
               /\ "wake_controller" \in Names(sent')
          ELSE /\ UNCHANGED <<autostart, stream>>
               /\ sent' = <<>>]_vars

C20_Witness ==
    /\ step = "cont" /\ "wake_controller" \in Names(sent)
    /\ autostart = 1 /\ stream.state = "STREAMING_BUFFERING"

\* in the receive loop, on a connected socket
Ready == pc = "run" /\ sock = "open" /\ LoopCond

\* a strm 's' frame is complete
StartDispatched ==
    /\ FrameDispatched /\ due # <<>>
    /\ Head(due).opcode = "strm" /\ Head(due).cmd = "s"

LoadTick ==
    /\ step' = "tick"
    /\ decode_state = "DECODE_READY" /\ ~sentSTMl
    /\ Delivering(stream.state, stream.disconnect)

\* what such a tick does with autostart 0 and with autostart 1
LoadStarts ==
    /\ autostart = 0 =>
          /\ decode_state' = "DECODE_RUNNING"
          /\ "STMl" \in Names(sent') /\ sentSTMl'
    /\ autostart = 1 =>
          /\ decode_state' = "DECODE_RUNNING"
          /\ output'.state = "OUTPUT_RUNNING"
          /\ "STMl" \notin Names(sent')

\* C21 as stated: in a tick where the decoder is READY, the stream is delivering
\* and sentSTMl is false: with autostart 0 the decoder becomes RUNNING and STMl
\* is emitted and latched, so that STMl is emitted at most once between two
\* consecutive strm 's'; with autostart 1 decoder and output become RUNNING
\* and no STMl is emitted; with autostart 2 or 3 neither the decoder nor the
\* output state changes, and no STMl is emitted while autostart is not 0.
C21_HeldStartChangesNothing ==
    /\ [][LoadTick =>
             /\ LoadStarts
             /\ autostart \in {2, 3} =>
                   /\ decode_state' = decode_state
                   /\ output'.state = output.state
                   /\ "STMl" \notin Names(sent')]_vars
    /\ [][TickEmits("STMl") => (autostart = 0 /\ ~hist.STMl)]_vars

\* C21: the same, but with autostart 2 or 3 the output state may change in one
\* way: the tick emits STMu or STMo and with it stops the output.
C21_LoadByAutostart ==
    /\ [][LoadTick =>
             /\ LoadStarts
             /\ autostart \in {2, 3} =>
                   /\ decode_state' = decode_state
                   /\ \/ output'.state = output.state
                      \/ /\ output'.state = "OUTPUT_STOPPED"
                         /\ {"STMu", "STMo"} \cap Names(sent') # {}
                   /\ "STMl" \notin Names(sent')]_vars
    /\ [][TickEmits("STMl") => (autostart = 0 /\ ~hist.STMl)]_vars

C21_Witness ==
    /\ step = "tick" /\ "SQ_PLAY" \in Names(sent) /\ autostart \in {2, 3}
    /\ decode_state = "DECODE_READY" /\ "STMl" \notin Names(sent)
    /\ "STMu" \in Names(sent) /\ output.state = "OUTPUT_STOPPED"

\* the stream delivered nothing, the output has completed and is running
NoData == stream.bytes = 0 /\ output.completed /\ output.state = "OUTPUT_RUNNING"

\* the output state the tick makes visible when it releases the outputbuf
\* mutex at the end of its output section
AtUnlockO(s) == {s[i].arg[1] : i \in {k \in 1..Len(s) : s[k].ev = "UNLOCK_O" /\ s[k].arg # <<>>}}

\* C22: STMu is emitted at most once between two consecutive strm 's', only in
\* a tick where output is RUNNING, the sampled stream state is STOPPED or
\* DISCONNECT, render state is STOPPED, output is ready and canSTMdu is true
\* (render state and canSTMdu as the tick has them at its test: before the
\* tick, or set by the tick on a track start or a stream without data); the
\* tick that emits it sets output state to STOPPED and clears the flow flag.
C22_UnderrunOnce ==
    [][TickEmits("STMu") =>
          /\ ~hist.STMu
          /\ output.state = "OUTPUT_RUNNING" /\ LeDisconnect(stream.state)
          /\ (render.state = "RD_STOPPED" \/ NoData)
          /\ (output.completed \/ output.flow)
          /\ (canSTMdu \/ output.track_started \/ NoData)
          /\ render'.state = "RD_STOPPED" /\ canSTMdu'
          /\ AtUnlockO(sent') = {"OUTPUT_STOPPED"}
          /\ ~output'.flow]_vars

C22_Witness ==
    /\ step = "tick" /\ "STMu" \in Names(sent) /\ "STMn" \notin Names(sent)
    /\ "STMs" \notin Names(sent) /\ output.state = "OUTPUT_STOPPED"

\* C23: in a tick where the stream has delivered zero bytes while the output
\* has completed and is RUNNING, STMn is emitted and, when the tick ends,
\* render state is STOPPED, canSTMdu is true and the decoder state is STOPPED.
C23_NoDataStopsAll ==
    [][(step' = "tick" /\ NoData) =>
          /\ "STMn" \in Names(sent')
          /\ render'.state = "RD_STOPPED" /\ canSTMdu'
          /\ decode_state' = "DECODE_STOPPED"]_vars

\* what a strm 'f' does, seen in a step of another command
DoesFlush ==
    /\ decode_state' = "DECODE_STOPPED"
    /\ output' = output_flush(output)
    /\ stream'.state = "STOPPED"
    /\ {"decode_flush", "output_flush", "stream_disconnect", "zero_ms_played",
        "buf_flush"} \subseteq Names(sent')

\* C24 as stated: a strm 'q' does everything a strm 'f' does: it flushes decoder
\* and output, disconnects the stream, zeroes ms_played, flushes the stream
\* buffer and replies with an STMf, whether or not a stream was open.
C24_StopRepliesAlways ==
    [][(step' \in {"strm_q", "strm_f"}) =>
          (DoesFlush /\ Count(sent', "STMf") = 1)]_vars

\* C24: a strm 'q' does what a strm 'f' does, but replies with an STMf only
\* when a stream was open when it arrived; a strm 'f' always replies.
C24_StopRepliesWhenOpen ==
    [][/\ step' \in {"strm_q", "strm_f"} => DoesFlush
       /\ step' = "strm_f" => Count(sent', "STMf") = 1
       /\ step' = "strm_q" =>
             Count(sent', "STMf") = (IF StreamOpen(stream.state) THEN 1 ELSE 0)]_vars

C24_Witness ==
    /\ step = "strm_q" /\ "STMf" \in Names(sent)
    /\ "stream_disconnect" \in Names(sent) /\ stream.state = "STOPPED"

\* the frames sent on the control channel
ControlFrames ==
    TickFrames \cup {"STMf", "STMc", "STMp", "STMr", "DSCO", "RESP", "META",
                     "SETD", "HELO"}

\* C25: the controller sends no frame on the control channel while it holds
\* the streambuf, outputbuf or decode mutex, in the ticker and in every handler.
C25_NoSendUnderMutex ==
    \A i \in 1..Len(sent) :
        sent[i].ev \in ControlFrames => Held(sent, i) = {}

\* a ticker invocation that held two mutexes and then sent a frame
C25_Witness ==
    /\ step = "tick"
    /\ \E i \in 1..Len(sent) : Held(sent, i) = {"O", "D"}
    /\ Names(sent) \cap ControlFrames # {}

\* C26: while the flow flag is set, a call of process_start (from strm 's' or
\* codc) advances the track index by one and opens the codec, and nothing
\* else: no output_start, no SQ_SET_TRACK, and it fails (STMn) exactly when
\* the codec did not open; the flow flag stays set until a tick emits STMu.
C26_FlowStartsOnlyOpenCodec ==
    [][/\ (output.flow /\ output'.index # output.index) =>
             /\ step' \in {"strm_s", "codc"}
             /\ output'.index = output.index + 1
             /\ Count(sent', "codec_open") = 1
             /\ "output_start" \notin Names(sent')
             /\ "SQ_SET_TRACK" \notin Names(sent')
             /\ ("STMn" \in Names(sent')) <=> (decode_state' # "DECODE_READY")
             /\ output'.flow
       /\ (output.flow /\ ~output'.flow) =>
             (step' = "tick" /\ "STMu" \in Names(sent'))]_vars

\* the second track of a flow: the codec opened and the output was left alone
C26_Witness ==
    /\ step \in {"strm_s", "codc"}
    /\ output.flow /\ output.index = 2
    /\ decode_state = "DECODE_READY"
    /\ "codec_open" \in Names(sent) /\ "output_start" \notin Names(sent)

\* the callbacks of the player
Callbacks ==
    {"SQ_PAUSE", "SQ_UNPAUSE", "SQ_STOP", "SQ_PLAY", "SQ_SET_TRACK", "SQ_ONOFF",
     "SQ_VOLUME", "SQ_SETNAME", "SQ_SETSERVER"}

\* C27: a strm 'p' with a zero interval sets the output state to WAITING, invokes
\* SQ_PAUSE and sends STMp; with a non-zero interval it leaves the output alone,
\* invokes no callback and sends nothing; a strm 'u' sets the output state to
\* RUNNING with start_at equal to the jiffies of the packet and sends STMr.
C27_PauseAndUnpause ==
    [][/\ (step' = "strm_p" /\ inp'.interval = 0) =>
             /\ output' = [output EXCEPT !.state = "OUTPUT_WAITING"]
             /\ Names(sent') \cap Callbacks = {"SQ_PAUSE"}
             /\ Names(sent') \cap ControlFrames = {"STMp"}
       /\ (step' = "strm_p" /\ inp'.interval # 0) =>
             /\ output' = output
             /\ sent' = <<>>
       /\ step' = "strm_u" =>
             /\ output' = [output EXCEPT !.state = "OUTPUT_RUNNING",
                                          !.start_at = inp'.jiffies]
             /\ Names(sent') \cap ControlFrames = {"STMr"}]_vars

\* a paused output resumed at the time the server named
C27_Witness ==
    /\ step = "strm_u" /\ last_command = "u" /\ nframes = MaxPause
    /\ output.state = "OUTPUT_RUNNING" /\ output.start_at = 12345
    /\ othread.active
    /\ "STMr" \in Names(sent)

\* the tick of this step emits STMu or STMo
EmitsEndOfOutput == step' = "tick" /\ Names(sent') \cap {"STMu", "STMo"} # {}

\* C28 as stated: STMu and STMo are never both emitted by the same ticker
\* invocation, and an invocation that emits either ends with output STOPPED.
C28_EitherEndsStopped ==
    [][EmitsEndOfOutput =>
          /\ ~({"STMu", "STMo"} \subseteq Names(sent'))
          /\ output'.state = "OUTPUT_STOPPED"]_vars

\* C28: STMu and STMo are never both emitted by the same ticker invocation; an
\* invocation that emits either releases the outputbuf mutex with output
\* STOPPED, and ends with output STOPPED unless it also starts the decoder
\* with autostart 1, which sets the output RUNNING again.
C28_EitherStopsUntilReleased ==
    [][EmitsEndOfOutput =>
          /\ ~({"STMu", "STMo"} \subseteq Names(sent'))
          /\ AtUnlockO(sent') = {"OUTPUT_STOPPED"}
          /\ output'.state =
                (IF LoadTick /\ autostart = 1 THEN "OUTPUT_RUNNING"
                 ELSE "OUTPUT_STOPPED")]_vars

\* a tick that emitted STMo and started the decoder with autostart 1
C28_Witness ==
    /\ step = "tick" /\ "STMo" \in Names(sent)
    /\ "SQ_PLAY" \in Names(sent) /\ autostart = 1
    /\ output.state = "OUTPUT_RUNNING"

\* C29: the stream-failure STMn (no byte received, output completed and
\* RUNNING) is emitted in at most one tick between two strm 's': the tick that
\* emits it leaves the output section with the output out of RUNNING, whatever
\* the sampled stream state and the sentSTMu latch are.
C29_FailureReportedOnce ==
    [][(step' = "tick" /\ NoData) =>
          /\ ~hist.nodata
          /\ "OUTPUT_RUNNING" \notin AtUnlockO(sent')]_vars

\* C30: once running is false the controller thread opens no new TCP
\* connection and sends no HELO, whichever step it was in when running changed.
C30_NoConnectAfterStop ==
    [][~running => step' \notin {"helo", "connect_failed"}]_vars

====
